---------------------------- MODULE Spec2Model ----------------------------
(***************************************************************************)
(* A model of the NESmulator memory bus (src/src/bus.rs) and of the        *)
(* picture-processing unit's register bank (src/src/ppu).  Every handler   *)
(* of the source is an operator from a state to an outcome                 *)
(*     [bus |-> the state it leaves, ret |-> the byte it returns,          *)
(*      fault |-> "none" or the panic that ended it],                      *)
(* and the actions apply those operators to the inputs a driver can give.  *)
(* The interpreter (src/src/cpu) is modelled on top of the bus, with       *)
(* drivers of its own.                                                     *)
(***************************************************************************)
EXTENDS Integers, Sequences, FiniteSets, TLC

VARIABLES
    bus,              \* the Bus and the Ppu it owns
    overflow_checks,  \* the build: TRUE panics on integer overflow, FALSE wraps
    fault,            \* "none", or the panic that ended the session
    last,             \* the access made last: [op, addr, value]
    ret,              \* the byte the last read returned
    prev,             \* the bus as it was before the last access
    steps,            \* accesses made so far
    cpu,              \* the registers of the CPU that owns the bus
    cprev,            \* the registers as they were before the last call
    phase,            \* where the CPU's driver stands: "idle", "running", ..
    log               \* the drivers' record: [start, pushed], and what the
                      \* observer given to run_with_callback has seen

vars == <<bus, overflow_checks, fault, last, ret, prev, steps, cpu, cprev, phase, log>>

\* Bound on the length of an access sequence.
MaxSteps == 3

(***************************************************************************)
(* Integer helpers: the source's u8/u16 arithmetic and bit operations.     *)
(***************************************************************************)
RECURSIVE BitAnd(_, _)
BitAnd(a, b) ==
    IF a = 0 \/ b = 0 THEN 0
    ELSE (IF a % 2 = 1 /\ b % 2 = 1 THEN 1 ELSE 0) + 2 * BitAnd(a \div 2, b \div 2)

RECURSIVE BitOr(_, _)
BitOr(a, b) ==
    IF a = 0 THEN b
    ELSE IF b = 0 THEN a
    ELSE (IF a % 2 = 1 \/ b % 2 = 1 THEN 1 ELSE 0) + 2 * BitOr(a \div 2, b \div 2)

\* A fixed-size zero-initialised byte array, held as its non-zero cells.
ArrayGet(arr, i) == IF i \in DOMAIN arr THEN arr[i] ELSE 0

ArrayPut(arr, i, v) ==
    IF v = 0
    THEN [j \in (DOMAIN arr) \ {i} |-> arr[j]]
    ELSE [j \in (DOMAIN arr) \cup {i} |-> IF j = i THEN v ELSE arr[j]]

EmptyArray == [j \in {} |-> 0]

\* An immutable byte vector handed over by the cartridge loader, held as its
\* length and a generator of its bytes.
VecLen(vec) == vec.len
VecAt(vec, i) ==
    IF "bytes" \in DOMAIN vec /\ i \in DOMAIN vec.bytes THEN vec.bytes[i]
    ELSE (vec.seed + i + (i \div 256)) % 256

(***************************************************************************)
(* src/src/ppu/reg: the register types.                                    *)
(***************************************************************************)
\* AddressRegister::update: u16 `+=` panics on overflow in a checked build
\* and wraps otherwise.
AddressUpdate(value, byte, latch, checked) ==
    LET ored == IF latch THEN BitOr(value, \b11110000) ELSE BitOr(value, \b00001111)
        sum  == IF latch THEN ored + byte ELSE ored + byte * 256
    IN  IF sum > \hFFFF /\ checked
        THEN [value |-> ored, fault |-> "overflow"]
        ELSE [value |-> sum % 65536, fault |-> "none"]

\* AddressRegister::increment
AddressIncrement(value, inc) ==
    LET added == (value + inc) % 65536
    IN  IF added > \h3FFF THEN BitAnd(added, \b0111111111111111) ELSE added

\* ScrollRegister::update
ScrollUpdate(scroll, byte, latch) ==
    IF latch THEN [scroll EXCEPT !.y = byte] ELSE [scroll EXCEPT !.x = byte]

\* MaskRegister::update
MaskUpdate(byte) == byte

\* ControlRegister::update and ControlRegister::vram_addr_increment
\* (src/src/ppu/reg/control.rs is not among the sources).
ControlUpdate(byte) == byte
VramAddrIncrement(control) == IF BitAnd(control, \b00000100) = 0 THEN 1 ELSE 32


(***************************************************************************)
(* src/src/ppu/mod.rs: the Ppu.  An outcome is [ppu, ret, fault].          *)
(***************************************************************************)
\* PpuFlags::from_bits_truncate(0b1010_0000)
PpuStatusInit == 160
\* vram: [u8; 2048]
VramSize == 2048
\* oam_data: [u8; 64 * 4]
OamSize == 256

\* Ppu::new
PpuNew(chr_rom, mirroring) ==
    [ address_latch |-> FALSE,
      reg_address   |-> 0,
      reg_control   |-> 0,
      reg_mask      |-> 0,
      reg_scroll    |-> [x |-> 0, y |-> 0],
      status        |-> PpuStatusInit,
      chr_rom       |-> chr_rom,
      vram          |-> EmptyArray,
      oam_address   |-> 0,
      oam_data      |-> EmptyArray,
      data_buffer   |-> 0,
      mirroring     |-> mirroring ]

PpuOk(ppu, byte) == [ppu |-> ppu, ret |-> byte, fault |-> "none"]
PpuFault(ppu, kind) == [ppu |-> ppu, ret |-> 0, fault |-> kind]

\* Ppu::write_to_address
WriteToAddress(ppu, value, checked) ==
    LET upd == AddressUpdate(ppu.reg_address, value, ppu.address_latch, checked)
    IN  IF upd.fault # "none"
        THEN PpuFault([ppu EXCEPT !.reg_address = upd.value], upd.fault)
        ELSE PpuOk([ppu EXCEPT !.reg_address = upd.value, !.address_latch = TRUE], 0)

\* Ppu::write_to_control
WriteToControl(ppu, value) == [ppu EXCEPT !.reg_control = ControlUpdate(value)]

\* Ppu::write_to_mask
WriteToMask(ppu, value) == [ppu EXCEPT !.reg_mask = MaskUpdate(value)]

\* Ppu::write_to_scroll
WriteToScroll(ppu, value) ==
    [ppu EXCEPT !.reg_scroll = ScrollUpdate(ppu.reg_scroll, value, ppu.address_latch),
                !.address_latch = TRUE]

\* Ppu::write_to_oam_addr
WriteToOamAddr(ppu, value) == [ppu EXCEPT !.oam_address = value]

\* Ppu::write_to_oam_data
WriteToOamData(ppu, value) ==
    [ppu EXCEPT !.oam_data = ArrayPut(ppu.oam_data, ppu.oam_address, value),
                !.oam_address = (ppu.oam_address + 1) % 256]

\* Ppu::read_from_oam_data: indexes oam_data with the bus address it is given.
ReadFromOamData(ppu, addr) ==
    IF addr < OamSize
    THEN PpuOk(ppu, ArrayGet(ppu.oam_data, addr))
    ELSE PpuFault(ppu, "index")

\* Ppu::write_oam_dma
RECURSIVE WriteOamDma(_, _)
WriteOamDma(ppu, page) ==
    IF page = <<>> THEN ppu
    ELSE WriteOamDma(WriteToOamData(ppu, Head(page)), Tail(page))

\* A status read that leaves the latch alone.
GetStatusKeepLatch(ppu) == PpuOk(ppu, ppu.status)

\* Ppu::get_status
GetStatus(ppu) == PpuOk([ppu EXCEPT !.address_latch = FALSE], ppu.status)

\* An advance by one, whatever the control register selects.
IncrementVramAddrByOne(ppu) ==
    [ppu EXCEPT !.reg_address = AddressIncrement(ppu.reg_address, 1)]

\* Ppu::increment_vram_addr
IncrementVramAddr(ppu) ==
    [ppu EXCEPT !.reg_address =
        AddressIncrement(ppu.reg_address, VramAddrIncrement(ppu.reg_control))]

\* Ppu::mirror_vram_addr
MirrorVramAddr(ppu, addr) ==
    LET mirrored_vram == BitAnd(addr, \b1011111111111111)
        vram_index    == mirrored_vram - \h2000
        name_table    == vram_index \div \h0400
    IN  CASE ppu.mirroring = "Vertical" /\ name_table \in {2, 3} -> vram_index - \h0800
          [] ppu.mirroring = "Horizontal" /\ name_table = 1      -> vram_index - \h0400
          [] ppu.mirroring = "Horizontal" /\ name_table = 2      -> vram_index - \h0400
          [] ppu.mirroring = "Horizontal" /\ name_table = 3      -> vram_index - \h0800
          [] OTHER                                               -> vram_index

\* Ppu::read
PpuRead(ppu) ==
    LET addr == ppu.reg_address
        p    == IncrementVramAddr(ppu)
    IN  CASE addr <= \h1FFF ->
               IF addr < VecLen(p.chr_rom)
               THEN PpuOk([p EXCEPT !.data_buffer = VecAt(p.chr_rom, addr)], p.data_buffer)
               ELSE PpuFault(p, "index")
          [] addr \in \h2000..\h2007 -> PpuFault(p, "todo")
          [] addr \in \h2008..\h2FFF ->
               PpuOk([p EXCEPT !.data_buffer = ArrayGet(p.vram, MirrorVramAddr(p, addr))],
                     p.data_buffer)
          [] addr \in \h3000..\h3EFF ->
               PpuOk([p EXCEPT !.data_buffer =
                          ArrayGet(p.vram, MirrorVramAddr(p, addr - \h1000))],
                     p.data_buffer)
          [] addr \in \h3F00..\h3FFF ->
               LET q   == [p EXCEPT !.data_buffer =
                               ArrayGet(p.vram, MirrorVramAddr(p, addr - \h1000))]
                   idx == ((addr - \h3F00) % \h0020) + \h3F00
               IN  IF idx < VramSize THEN PpuOk(q, ArrayGet(q.vram, idx))
                   ELSE PpuFault(q, "index")
          [] OTHER -> PpuFault(p, "ppu_addr")

\* Ppu::write
PpuWrite(ppu, value) ==
    LET addr == ppu.reg_address
        idx  == ((addr - \h3F00) % \h0020) + \h3F00
    IN  CASE addr <= \h1FFF -> PpuFault(ppu, "todo")
          [] addr \in \h2000..\h2007 -> PpuFault(ppu, "todo")
          [] addr \in \h2008..\h2FFF ->
               PpuOk(IncrementVramAddr(
                   [ppu EXCEPT !.vram = ArrayPut(ppu.vram, MirrorVramAddr(ppu, addr), value)]), 0)
          [] addr \in \h3000..\h3EFF ->
               PpuOk(IncrementVramAddr(
                   [ppu EXCEPT !.vram =
                       ArrayPut(ppu.vram, MirrorVramAddr(ppu, addr - \h1000), value)]), 0)
          [] addr \in \h3F00..\h3FFF ->
               IF idx < VramSize
               THEN PpuOk(IncrementVramAddr(
                        [ppu EXCEPT !.vram = ArrayPut(ppu.vram, idx, value)]), 0)
               ELSE PpuFault(ppu, "index")
          [] OTHER -> PpuFault(ppu, "ppu_addr")

(***************************************************************************)
(* src/src/bus.rs: the Bus.  An outcome is [bus, ret, fault].              *)
(***************************************************************************)
\* Bus::new
BusNew(rom) ==
    [ cpu_wram     |-> EmptyArray,
      open_bus     |-> 0,
      ppu_open_bus |-> 0,
      prg_rom      |-> rom.prg_rom,
      ppu          |-> PpuNew(rom.chr_rom, rom.screen_mirroring) ]

BusOk(b, byte) == [bus |-> b, ret |-> byte, fault |-> "none"]
BusFault(b, kind) == [bus |-> b, ret |-> 0, fault |-> kind]

\* A mirror mask one bit too wide.
MirrorRamAddrWide(addr) == BitAnd(addr, \b0000111111111111)

\* The work-RAM mirror mask of mem_read and mem_write.
MirrorRamAddr(addr) == BitAnd(addr, \b0000011111111111)

\* A mirror mask that drops bit 2 of the slot number.
MirrorPpuAddrNarrow(addr) == BitAnd(addr, \b0010000000000011)

\* The register mirror mask of mem_read and mem_write.
MirrorPpuAddr(addr) == BitAnd(addr, \b0010000000000111)

\* Bus::read_prg_rom
ReadPrgRom(b, addr) ==
    LET off == addr - \h8000
        idx == IF VecLen(b.prg_rom) = \h4000 /\ off >= \h4000 THEN off % \h4000 ELSE off
    IN  IF idx < VecLen(b.prg_rom) THEN BusOk(b, VecAt(b.prg_rom, idx))
        ELSE BusFault(b, "index")

\* Bus::mem_read
RECURSIVE MemRead(_, _)
MemRead(b, addr) ==
    CASE addr \in \h0000..\h1FFF ->
           LET value == ArrayGet(b.cpu_wram, MirrorRamAddr(addr))
           IN  BusOk([b EXCEPT !.open_bus = value], value)
      [] addr \in {\h2000, \h2001, \h2003, \h2005, \h2006} ->
           BusOk([b EXCEPT !.open_bus = b.ppu_open_bus], b.ppu_open_bus)
      [] addr = \h2002 ->
           LET got    == GetStatus(b.ppu)
               status == got.ret
           IN  BusOk([b EXCEPT !.ppu = got.ppu,
                               !.ppu_open_bus = BitOr(BitAnd(b.ppu_open_bus, \b00011111), status),
                               !.open_bus = status],
                     status)
      [] addr = \h2004 ->
           LET got == ReadFromOamData(b.ppu, addr)
           IN  IF got.fault # "none" THEN BusFault([b EXCEPT !.ppu = got.ppu], got.fault)
               ELSE BusOk([b EXCEPT !.ppu = got.ppu, !.ppu_open_bus = got.ret,
                                    !.open_bus = got.ret], got.ret)
      [] addr = \h2007 ->
           LET got == PpuRead(b.ppu)
           IN  IF got.fault # "none" THEN BusFault([b EXCEPT !.ppu = got.ppu], got.fault)
               ELSE BusOk([b EXCEPT !.ppu = got.ppu, !.ppu_open_bus = got.ret,
                                    !.open_bus = got.ret], got.ret)
      [] addr \in \h2008..\h3FFF -> MemRead(b, MirrorPpuAddr(addr))
      [] addr \in \h4016..\h4017 -> BusFault(b, "todo")
      [] addr \in \h8000..\hFFFF ->
           LET got == ReadPrgRom(b, addr)
           IN  IF got.fault # "none" THEN got
               ELSE BusOk([b EXCEPT !.open_bus = got.ret], got.ret)
      [] OTHER -> BusOk(b, b.open_bus)

\* The page slice of the OAM DMA arm of mem_write:
\* &cpu_wram[(value << 8)..(value << 8 + 256)], where `<<` binds looser than
\* `+`, so the end is value << 264: a panic in a checked build, and
\* value << (264 mod the word size) = value << 8 otherwise.
DmaPage(b, value, checked) ==
    LET start == value * 256
        end   == value * 256
    IN  IF checked THEN [page |-> <<>>, fault |-> "overflow"]
        ELSE IF end > 2048 THEN [page |-> <<>>, fault |-> "slice"]
        ELSE [page |-> [i \in 1..(end - start) |-> ArrayGet(b.cpu_wram, start + i - 1)],
              fault |-> "none"]

\* A cartridge write that falls through to the default arm.
WritePrgRomAsUnmapped(b, addr) == BusFault(b, "bad_write")

\* The cartridge arm of mem_write:
\* panic!("Attempt to write to Cartridge ROM space ({:x})", addr)
WritePrgRom(b, addr) == BusFault(b, "rom_write")

\* The default arm of mem_write: panic!("Attempt to write to {:x}", addr)
WriteUnmapped(b, addr) == BusFault(b, "bad_write")

\* Bus::mem_write
RECURSIVE MemWrite(_, _, _, _)
MemWrite(b, addr, value, checked) ==
    LET latched == [b EXCEPT !.ppu_open_bus = value]
    IN
    CASE addr \in \h0000..\h1FFF ->
           BusOk([b EXCEPT !.cpu_wram = ArrayPut(b.cpu_wram, MirrorRamAddr(addr), value)], 0)
      [] addr = \h2000 ->
           BusOk([latched EXCEPT !.ppu = WriteToControl(b.ppu, value)], 0)
      [] addr = \h2001 ->
           BusOk([latched EXCEPT !.ppu = WriteToMask(b.ppu, value)], 0)
      [] addr = \h2002 -> BusOk(latched, 0)
      [] addr = \h2004 ->
           BusOk([latched EXCEPT !.ppu = WriteToOamData(b.ppu, value)], 0)
      [] addr = \h2005 ->
           BusOk([latched EXCEPT !.ppu = WriteToScroll(b.ppu, value)], 0)
      [] addr = \h2006 ->
           LET got == WriteToAddress(b.ppu, value, checked)
           IN  [bus |-> [latched EXCEPT !.ppu = got.ppu], ret |-> 0, fault |-> got.fault]
      [] addr = \h2007 ->
           LET got == PpuWrite(b.ppu, value)
           IN  [bus |-> [latched EXCEPT !.ppu = got.ppu], ret |-> 0, fault |-> got.fault]
      [] addr \in \h2008..\h3FFF -> MemWrite(b, MirrorPpuAddr(addr), value, checked)
      [] addr = \h4014 ->
           LET sl == DmaPage(b, value, checked)
           IN  IF sl.fault # "none" THEN BusFault(latched, sl.fault)
               ELSE BusOk([latched EXCEPT !.ppu = WriteOamDma(b.ppu, sl.page)], 0)
      [] addr \in \h8000..\hFFFF -> WritePrgRom(b, addr)
      [] OTHER -> WriteUnmapped(b, addr)

(***************************************************************************)
(* src/src/cpu: the interpreter.  A machine is the CPU struct with the bus *)
(* it owns and the panic, if any, that has ended the session:              *)
(*     [register_a, register_x, register_y, stackptr, status, pc,          *)
(*      bus, fault].                                                       *)
(* A handler is an operator from a machine to the machine it leaves; a     *)
(* helper that returns a value gives [cpu |-> machine, ret |-> value].     *)
(* Once a machine has panicked nothing more happens to it.  A handler of   *)
(* several statements is written as one operator per statement, each       *)
(* handing its outcome to the next.                                        *)
(***************************************************************************)
RECURSIVE BitXor(_, _)
BitXor(a, b) ==
    IF a = 0 THEN b
    ELSE IF b = 0 THEN a
    ELSE (IF (a % 2) # (b % 2) THEN 1 ELSE 0) + 2 * BitXor(a \div 2, b \div 2)

\* CpuFlag: NV2B DIZC
CpuFlag ==
    [ CARRY             |-> \b00000001,
      ZERO              |-> \b00000010,
      INTERRUPT_DISABLE |-> \b00000100,
      DECIMAL_MODE      |-> \b00001000,
      BREAK             |-> \b00010000,
      BREAK2            |-> \b00100000,
      OVERFLOW          |-> \b01000000,
      NEGATIVE          |-> \b10000000 ]

\* bitflags: contains, insert, remove, set
Contains(status, flag) == (status \div flag) % 2 = 1
Insert(status, flag) == IF Contains(status, flag) THEN status ELSE status + flag
Remove(status, flag) == IF Contains(status, flag) THEN status - flag ELSE status
FlagSet(status, flag, on) == IF on THEN Insert(status, flag) ELSE Remove(status, flag)

\* src/src/cpu/stackptr.rs
STACK == \h0100
STACK_RESET == \hFD

\* StackPtr::addr
StackPtrAddr(sp) == STACK + sp

\* StackPtr::inc: "Stack grows down in memory", wrapping_sub(1)
StackPtrInc(sp) == (sp + 255) % 256

\* StackPtr::dec: wrapping_add(1)
StackPtrDec(sp) == (sp + 1) % 256

\* CPU::new, without the bus
CpuNew ==
    [ register_a |-> 0,
      register_x |-> 0,
      register_y |-> 0,
      stackptr   |-> STACK_RESET,
      status     |-> \b00100100,
      pc         |-> 0 ]

\* The CPU struct: the registers with the bus.
Machine(c, b) ==
    [ register_a |-> c.register_a,
      register_x |-> c.register_x,
      register_y |-> c.register_y,
      stackptr   |-> c.stackptr,
      status     |-> c.status,
      pc         |-> c.pc,
      bus        |-> b,
      fault      |-> "none" ]

Registers(m) ==
    [ register_a |-> m.register_a,
      register_x |-> m.register_x,
      register_y |-> m.register_y,
      stackptr   |-> m.stackptr,
      status     |-> m.status,
      pc         |-> m.pc ]

\* What a statement does to a machine: nothing once it has panicked.
Then(m, new) == IF m.fault = "none" THEN new ELSE m

CpuPanic(m, kind) == Then(m, [m EXCEPT !.fault = kind])

CpuRet(m, value) == [cpu |-> m, ret |-> value]

\* Assignments to the registers.
SetPc(m, value) == Then(m, [m EXCEPT !.pc = value])
SetStatus(m, value) == Then(m, [m EXCEPT !.status = value])
SetStackPtr(m, value) == Then(m, [m EXCEPT !.stackptr = value])

\* self.pc = <a value a helper returned>
PcFrom(got) == SetPc(got.cpu, got.ret)

\* u16 `+`: a panic in an overflow-checked build, wrapping otherwise.
AddU16(m, a, b) ==
    IF a + b > \hFFFF /\ overflow_checks
    THEN CpuRet(CpuPanic(m, "overflow"), 0)
    ELSE CpuRet(m, (a + b) % 65536)

\* The outcome of a bus access, taken into the machine.
AfterRead(m, got) == CpuRet([m EXCEPT !.bus = got.bus, !.fault = got.fault], got.ret)
AfterWrite(m, got) == [m EXCEPT !.bus = got.bus, !.fault = got.fault]

\* impl Memory for CPU: mem_read
CpuMemRead(m, addr) ==
    IF m.fault # "none" THEN CpuRet(m, 0) ELSE AfterRead(m, MemRead(m.bus, addr))

\* impl Memory for CPU: mem_write
CpuMemWrite(m, addr, value) ==
    IF m.fault # "none" THEN m ELSE AfterWrite(m, MemWrite(m.bus, addr, value, overflow_checks))

\* A read at the address a helper returned.
ReadAt(at) == CpuMemRead(at.cpu, at.ret)

\* from_le_bytes([lo, hi]), on the machine the read of hi has left
LeBytes(lo, hi) == CpuRet(hi.cpu, hi.ret * 256 + lo.ret)

\* Bus::mem_read_u16: the low byte at addr, the high byte at addr + 1
MemReadU16Hi(lo, addr) == LeBytes(lo, ReadAt(AddU16(lo.cpu, addr, 1)))
MemReadU16(m, addr) == MemReadU16Hi(CpuMemRead(m, addr), addr)

\* A write, at the address a helper returned.
WriteAt(at, value) == CpuMemWrite(at.cpu, at.ret, value)

\* Bus::mem_write_u16
MemWriteU16(m, addr, value) ==
    WriteAt(AddU16(CpuMemWrite(m, addr, value % 256), addr, 1), value \div 256)

\* CPU::update_zero_and_negative_flags
UpdateZeroAndNegativeFlags(m, result) ==
    SetStatus(m, FlagSet(FlagSet(m.status, CpuFlag.ZERO, result = 0), CpuFlag.NEGATIVE, result >= 128))

\* CPU::set_flag, CPU::clear_flag
SetFlag(m, flag) == SetStatus(m, Insert(m.status, flag))
ClearFlag(m, flag) == SetStatus(m, Remove(m.status, flag))

\* A push that moves the pointer before it writes.
StackPushMoveFirst(m, value) ==
    CpuMemWrite(SetStackPtr(m, StackPtrInc(m.stackptr)),
                StackPtrAddr(StackPtrInc(m.stackptr)), value)

\* CPU::stack_push: the write at stackptr.addr(), then stackptr.inc()
StackPush(m, value) ==
    SetStackPtr(CpuMemWrite(m, StackPtrAddr(m.stackptr), value), StackPtrInc(m.stackptr))

\* CPU::stack_push_u16: the high byte first
StackPushU16(m, value) == StackPush(StackPush(m, value \div 256), value % 256)

\* CPU::stack_pop: stackptr.dec(), then the read at stackptr.addr()
StackPop(m) ==
    CpuMemRead(SetStackPtr(m, StackPtrDec(m.stackptr)),
               StackPtrAddr(StackPtrDec(m.stackptr)))

\* CPU::stack_pop_u16: the low byte first
StackPopU16Hi(lo) == LeBytes(lo, StackPop(lo.cpu))
StackPopU16(m) == StackPopU16Hi(StackPop(m))

\* CPU::set_register_a, set_register_x, set_register_y
SetRegisterA(m, value) ==
    UpdateZeroAndNegativeFlags(Then(m, [m EXCEPT !.register_a = value]), value)
SetRegisterX(m, value) ==
    UpdateZeroAndNegativeFlags(Then(m, [m EXCEPT !.register_x = value]), value)
SetRegisterY(m, value) ==
    UpdateZeroAndNegativeFlags(Then(m, [m EXCEPT !.register_y = value]), value)

\* A zero-page index that carries into the high byte.
ZeroPageIndexedCarry(base, index) == base + index

\* The ZeroPage_X and ZeroPage_Y arms of get_operand_address:
\* addr.wrapping_add(index) as u16
ZeroPageIndexed(base, index) == (base + index) % 256

\* The address a helper returned, changed.
Indexed8(at, index) == CpuRet(at.cpu, ZeroPageIndexed(at.ret, index))
Indexed16(at, index) == CpuRet(at.cpu, (at.ret + index) % 65536)

\* The pointer fetch of the indirect modes: lo at ptr, hi at
\* ptr.wrapping_add(1), both in the zero page.
ZeroPagePointerHi(lo, ptr) == LeBytes(lo, CpuMemRead(lo.cpu, (ptr + 1) % 256))
ZeroPagePointer(at) == ZeroPagePointerHi(ReadAt(at), at.ret)

\* CPU::get_operand_address
GetOperandAddress(m, mode) ==
    CASE mode = "Immediate" -> CpuRet(m, m.pc)
      [] mode = "ZeroPage" -> CpuMemRead(m, m.pc)
      [] mode = "Absolute" -> MemReadU16(m, m.pc)
      [] mode = "ZeroPage_X" -> Indexed8(CpuMemRead(m, m.pc), m.register_x)
      [] mode = "ZeroPage_Y" -> Indexed8(CpuMemRead(m, m.pc), m.register_y)
      [] mode = "Absolute_X" -> Indexed16(MemReadU16(m, m.pc), m.register_x)
      [] mode = "Absolute_Y" -> Indexed16(MemReadU16(m, m.pc), m.register_y)
      [] mode = "Indirect_X" -> ZeroPagePointer(Indexed8(CpuMemRead(m, m.pc), m.register_x))
      [] mode = "Indirect_Y" ->
           Indexed16(ZeroPagePointer(CpuMemRead(m, m.pc)), m.register_y)
      [] OTHER -> CpuRet(CpuPanic(m, "mode"), 0)

\* The registers as reset leaves them, but for the stack pointer.
ClearedKeepStack(m) ==
    [m EXCEPT !.register_a = 0, !.register_x = 0, !.register_y = 0,
              !.status = \b00100100]

\* The registers as reset leaves them.
Cleared(m) ==
    [m EXCEPT !.register_a = 0, !.register_x = 0, !.register_y = 0,
              !.stackptr = STACK_RESET, !.status = \b00100100]

\* CPU::reset
Reset(m) == PcFrom(MemReadU16(Cleared(m), \hFFFC))

\* CPU::load: the program at 0x0600 onwards, then the reset vector.
RECURSIVE LoadBytes(_, _, _)
LoadBytes(m, program, i) ==
    IF i >= Len(program) THEN m
    ELSE LoadBytes(WriteAt(AddU16(m, \h0600, i), program[i + 1]), program, i + 1)

Load(m, program) == MemWriteU16(LoadBytes(m, program, 0), \hFFFC, \h0600)

(***************************************************************************)
(* The instruction handlers of src/src/cpu/cpu.rs.  A handler that begins  *)
(* with `let addr = self.get_operand_address(mode)` is given the outcome   *)
(* `at` of that call, the machine it left and the address it returned; one *)
(* that goes on with `self.mem_read(addr)` is given the outcome `got` of   *)
(* that read.  The handlers of one statement are written in the arms of    *)
(* the match that calls them.                                              *)
(***************************************************************************)
\* CPU::branch
BranchTo(pc, jump) ==
    SetPc(jump.cpu, (pc + 1 + (IF jump.ret >= 128 THEN jump.ret + \hFF00 ELSE jump.ret)) % 65536)
Branch(m) == BranchTo(m.pc, CpuMemRead(m, m.pc))

BranchIf(m, taken) == IF taken THEN Branch(m) ELSE m

\* CPU::bit
Bit(got) ==
    SetStatus(got.cpu,
        FlagSet(FlagSet(FlagSet(got.cpu.status,
            CpuFlag.ZERO, BitAnd(got.ret, got.cpu.register_a) = 0),
            CpuFlag.NEGATIVE, Contains(got.ret, CpuFlag.NEGATIVE)),
            CpuFlag.OVERFLOW, Contains(got.ret, CpuFlag.OVERFLOW)))

\* self.set_register_a(<a byte a helper returned>): lda, pla
LoadA(got) == SetRegisterA(got.cpu, got.ret)

\* The write back of a result to memory, and its flags.
StoreResult(m, addr, value) == UpdateZeroAndNegativeFlags(CpuMemWrite(m, addr, value), value)

\* The bit that asl and rol (bit 7), lsr and ror (bit 0) move into the carry.
ShiftCarry(kind, value) ==
    IF kind \in {"asl", "rol"} THEN value \div 128 = 1 ELSE value % 2 = 1

\* The result of a shift of `value`, `old` being the carry before it.
ShiftResult(kind, value, old) ==
    CASE kind = "asl" -> (value * 2) % 256
      [] kind = "lsr" -> value \div 2
      [] kind = "rol" -> ((value * 2) % 256) + (IF old THEN 1 ELSE 0)
      [] kind = "ror" -> (value \div 2) + (IF old THEN 128 ELSE 0)

\* CPU::asl, lsr, rol, ror: the accumulator when the mode is NoneAddressing
\* and the operand's memory cell otherwise; the carry is set before the
\* result is stored.
Shift(m, mode, at, got, kind) ==
    IF mode = "NoneAddressing"
    THEN SetRegisterA(SetStatus(m, FlagSet(m.status, CpuFlag.CARRY, ShiftCarry(kind, m.register_a))),
                      ShiftResult(kind, m.register_a, Contains(m.status, CpuFlag.CARRY)))
    ELSE StoreResult(SetStatus(got.cpu,
                               FlagSet(got.cpu.status, CpuFlag.CARRY, ShiftCarry(kind, got.ret))),
                     at.ret, ShiftResult(kind, got.ret, Contains(got.cpu.status, CpuFlag.CARRY)))

\* The flags as they are.
PushedFlagsPlain(status) == status

\* CPU::php: the copy of the flags that is pushed, CpuFlag.BREAK and CpuFlag.BREAK2 inserted
PushedFlags(status) == Insert(Insert(status, CpuFlag.BREAK), CpuFlag.BREAK2)

\* The byte pulled, left in the status register as it is.
PullFlagsAsPulled(got) == SetStatus(got.cpu, got.ret)

\* CPU::plp, and the first statements of rti: the byte pulled, as it is
\* left in the status register:
\* status.bits = stack_pop(); clear_flag(CpuFlag.BREAK); set_flag(CpuFlag.BREAK2)
PullFlags(got) == SetFlag(ClearFlag(SetStatus(got.cpu, got.ret), CpuFlag.BREAK), CpuFlag.BREAK2)

\* A comparison whose carry is set when the register is greater, not when it
\* is greater or equal.
CompareStrict(m, register, value) ==
    UpdateZeroAndNegativeFlags(SetStatus(m, FlagSet(m.status, CpuFlag.CARRY, register > value)),
                               (register + 256 - value) % 256)

\* CPU::cmp, cpx, cpy: the body they share, `register` being the register
\* compared.
Compare(m, register, value) ==
    UpdateZeroAndNegativeFlags(SetStatus(m, FlagSet(m.status, CpuFlag.CARRY, register >= value)),
                               (register + 256 - value) % 256)

\* The page of the high byte of an indirect jump, were it the next address's.
PageBugHighAddrNext(addr) == (addr + 1) % 65536

\* The address the high byte of an indirect jump is read at when the pointer
\* ends a page: addr & 0xFF00
PageBugHighAddr(addr) == (addr \div 256) * 256

\* The indirect arm of jmp: the pointer `addr` has been read.
PageBugHi(lo, addr) == LeBytes(lo, CpuMemRead(lo.cpu, PageBugHighAddr(addr)))
JmpIndirect(addr) ==
    PcFrom(IF addr.ret % 256 = \hFF
           THEN PageBugHi(ReadAt(addr), addr.ret)
           ELSE MemReadU16(addr.cpu, addr.ret))

\* CPU::jmp
Jmp(m, mode) ==
    CASE mode = "Absolute" -> PcFrom(MemReadU16(m, m.pc))
      [] mode = "NoneAddressing" -> JmpIndirect(MemReadU16(m, m.pc))
      [] OTHER -> CpuPanic(m, "unreachable")

\* CPU::jsr: self.pc + 2 - 1 is pushed
JsrJump(pushed) == PcFrom(MemReadU16(pushed, pushed.pc))
JsrPush(plus) == StackPushU16(plus.cpu, (plus.ret + \hFFFF) % 65536)
Jsr(m) == JsrJump(JsrPush(AddU16(m, m.pc, 2)))

\* CPU::rti
Rti(m) == PcFrom(StackPopU16(PullFlags(StackPop(m))))

\* CPU::rts: stack_pop_u16() + 1
RtsPlus(addr) == PcFrom(AddU16(addr.cpu, addr.ret, 1))
Rts(m) == RtsPlus(StackPopU16(m))

\* A carry flag that is not added.
CarryInNone(status) == 0

\* The carry added by add_to_register_a.
CarryIn(status) == IF Contains(status, CpuFlag.CARRY) THEN 1 ELSE 0

\* The overflow test of add_to_register_a:
\* (value ^ result) & (result ^ register_a) & 0x80 != 0
SignedOverflow(a, value, result) ==
    BitAnd(BitAnd(BitXor(value, result), BitXor(result, a)), \b10000000) # 0

\* CPU::add_to_register_a
AddFlags(m, value, sum) ==
    SetStatus(m, FlagSet(FlagSet(m.status, CpuFlag.CARRY, sum > \hFF),
                         CpuFlag.OVERFLOW, SignedOverflow(m.register_a, value, sum % 256)))
AddSum(m, value, sum) == SetRegisterA(AddFlags(m, value, sum), sum % 256)
AddToRegisterA(m, value) == AddSum(m, value, m.register_a + value + CarryIn(m.status))

\* A subtraction that adds the two's complement of the operand: the negation
\* without the subtraction of one.
SbcTwosComplement(got) == AddToRegisterA(got.cpu, (256 - got.ret) % 256)

\* CPU::sbc: ((value as i8).wrapping_neg().wrapping_sub(1)) as u8
Sbc(got) == AddToRegisterA(got.cpu, (((256 - got.ret) % 256) + 255) % 256)

(***************************************************************************)
(* The opcode table consumed by the run loop (super::opcode::OPCODES_MAP): *)
(* the byte length and the addressing mode of every opcode the loop        *)
(* dispatches.                                                             *)
(***************************************************************************)
Descriptors(codes, bytes, mode) ==
    [code \in codes |-> [bytes |-> bytes, addressing_mode |-> mode]]

OPCODES_MAP ==
    Descriptors({ \h00, \hEA, \hAA, \hA8, \hBA, \h8A, \h9A, \h98,
                  \h18, \hD8, \h58, \hB8, \h38, \hF8, \h78,
                  \h0A, \h4A, \h2A, \h6A, \h48, \h68, \h08, \h28,
                  \hE8, \hC8, \hCA, \h88, \h40, \h60 }, 1, "NoneAddressing")
    @@ Descriptors({ \h10, \h30, \h50, \h70, \h90, \hB0, \hD0, \hF0 }, 2, "NoneAddressing")
    @@ Descriptors({ \h6C, \h20 }, 3, "NoneAddressing")
    @@ Descriptors({ \hA9, \hA2, \hA0, \h69, \h29, \hC9, \hE0, \hC0, \h49, \h09, \hE9 },
                   2, "Immediate")
    @@ Descriptors({ \hA5, \hA6, \hA4, \h85, \h86, \h84, \h65, \h25, \h06, \h24, \hC5,
                     \hE4, \hC4, \hC6, \h45, \hE6, \h46, \h05, \h26, \h66, \hE5 },
                   2, "ZeroPage")
    @@ Descriptors({ \hB5, \hB4, \h95, \h94, \h75, \h35, \h16, \hD5, \hD6, \h55, \hF6,
                     \h56, \h15, \h36, \h76, \hF5 }, 2, "ZeroPage_X")
    @@ Descriptors({ \hB6, \h96 }, 2, "ZeroPage_Y")
    @@ Descriptors({ \hAD, \hAE, \hAC, \h8D, \h8E, \h8C, \h6D, \h2D, \h0E, \h2C, \hCD,
                     \hEC, \hCC, \hCE, \h4D, \hEE, \h4E, \h0D, \h2E, \h6E, \hED, \h4C },
                   3, "Absolute")
    @@ Descriptors({ \hBD, \hBC, \h9D, \h7D, \h3D, \h1E, \hDD, \hDE, \h5D, \hFE, \h5E,
                     \h1D, \h3E, \h7E, \hFD }, 3, "Absolute_X")
    @@ Descriptors({ \hB9, \hBE, \h99, \h79, \h39, \hD9, \h59, \h19, \hF9 }, 3, "Absolute_Y")
    @@ Descriptors({ \hA1, \h81, \h61, \h21, \hC1, \h41, \h01, \hE1 }, 2, "Indirect_X")
    @@ Descriptors({ \hB1, \h91, \h71, \h31, \hD1, \h51, \h11, \hF1 }, 2, "Indirect_Y")

(***************************************************************************)
(* CPU::run_with_callback.                                                 *)
(***************************************************************************)
\* The match of the loop body, but for its BRK arm.  `at` is the outcome of
\* get_operand_address and `got` that of the read at the address it gave,
\* for the handlers that make these calls.
ExecuteAt(m, opcode, mode, at, got) ==
    CASE opcode = \hEA -> m
      [] opcode \in {\h24, \h2C} -> Bit(got)
      \* tax, tay, tsx, txa, txs, tya
      [] opcode = \hAA -> SetRegisterX(m, m.register_a)
      [] opcode = \hA8 -> SetRegisterY(m, m.register_a)
      [] opcode = \hBA -> SetRegisterX(m, m.stackptr)
      [] opcode = \h8A -> SetRegisterA(m, m.register_x)
      [] opcode = \h9A -> SetStackPtr(m, m.register_x)
      [] opcode = \h98 -> SetRegisterA(m, m.register_y)
      \* clc, cld, cli, clv, sec, sed, sei
      [] opcode = \h18 -> ClearFlag(m, CpuFlag.CARRY)
      [] opcode = \hD8 -> ClearFlag(m, CpuFlag.DECIMAL_MODE)
      [] opcode = \h58 -> ClearFlag(m, CpuFlag.INTERRUPT_DISABLE)
      [] opcode = \hB8 -> ClearFlag(m, CpuFlag.OVERFLOW)
      [] opcode = \h38 -> SetFlag(m, CpuFlag.CARRY)
      [] opcode = \hF8 -> SetFlag(m, CpuFlag.DECIMAL_MODE)
      [] opcode = \h78 -> SetFlag(m, CpuFlag.INTERRUPT_DISABLE)
      \* lda, ldx, ldy
      [] opcode \in {\hA9, \hA5, \hB5, \hAD, \hBD, \hB9, \hA1, \hB1} -> LoadA(got)
      [] opcode \in {\hA2, \hA6, \hB6, \hAE, \hBE} -> SetRegisterX(got.cpu, got.ret)
      [] opcode \in {\hA0, \hA4, \hB4, \hAC, \hBC} -> SetRegisterY(got.cpu, got.ret)
      \* sta, stx, sty
      [] opcode \in {\h85, \h95, \h8D, \h9D, \h99, \h81, \h91} -> WriteAt(at, m.register_a)
      [] opcode \in {\h86, \h96, \h8E} -> WriteAt(at, m.register_x)
      [] opcode \in {\h84, \h94, \h8C} -> WriteAt(at, m.register_y)
      \* asl, lsr, rol, ror
      [] opcode \in {\h0A, \h06, \h16, \h0E, \h1E} -> Shift(m, mode, at, got, "asl")
      [] opcode \in {\h4A, \h46, \h56, \h4E, \h5E} -> Shift(m, mode, at, got, "lsr")
      [] opcode \in {\h2A, \h26, \h36, \h2E, \h3E} -> Shift(m, mode, at, got, "rol")
      [] opcode \in {\h6A, \h66, \h76, \h6E, \h7E} -> Shift(m, mode, at, got, "ror")
      \* pha, pla, php, plp
      [] opcode = \h48 -> StackPush(m, m.register_a)
      [] opcode = \h68 -> LoadA(StackPop(m))
      [] opcode = \h08 -> StackPush(m, PushedFlags(m.status))
      [] opcode = \h28 -> PullFlags(StackPop(m))
      \* and, ora, eor
      [] opcode \in {\h29, \h25, \h35, \h2D, \h3D, \h39, \h21, \h31} ->
           SetRegisterA(got.cpu, BitAnd(m.register_a, got.ret))
      [] opcode \in {\h09, \h05, \h15, \h0D, \h1D, \h19, \h01, \h11} ->
           SetRegisterA(got.cpu, BitOr(m.register_a, got.ret))
      [] opcode \in {\h49, \h45, \h55, \h4D, \h5D, \h59, \h41, \h51} ->
           SetRegisterA(got.cpu, BitXor(m.register_a, got.ret))
      \* bpl, bmi, bvc, bvs, bcc, bcs, bne, beq
      [] opcode = \h10 -> BranchIf(m, ~Contains(m.status, CpuFlag.NEGATIVE))
      [] opcode = \h30 -> BranchIf(m, Contains(m.status, CpuFlag.NEGATIVE))
      [] opcode = \h50 -> BranchIf(m, ~Contains(m.status, CpuFlag.OVERFLOW))
      [] opcode = \h70 -> BranchIf(m, Contains(m.status, CpuFlag.OVERFLOW))
      [] opcode = \h90 -> BranchIf(m, ~Contains(m.status, CpuFlag.CARRY))
      [] opcode = \hB0 -> BranchIf(m, Contains(m.status, CpuFlag.CARRY))
      [] opcode = \hD0 -> BranchIf(m, ~Contains(m.status, CpuFlag.ZERO))
      [] opcode = \hF0 -> BranchIf(m, Contains(m.status, CpuFlag.ZERO))
      \* cmp, cpx, cpy
      [] opcode \in {\hC9, \hC5, \hD5, \hCD, \hDD, \hD9, \hC1, \hD1} ->
           Compare(got.cpu, m.register_a, got.ret)
      [] opcode \in {\hE0, \hE4, \hEC} -> Compare(got.cpu, m.register_x, got.ret)
      [] opcode \in {\hC0, \hC4, \hCC} -> Compare(got.cpu, m.register_y, got.ret)
      \* inc, inx, iny, dec, dex, dey
      [] opcode \in {\hE6, \hF6, \hEE, \hFE} ->
           StoreResult(got.cpu, at.ret, (got.ret + 1) % 256)
      [] opcode = \hE8 -> SetRegisterX(m, (m.register_x + 1) % 256)
      [] opcode = \hC8 -> SetRegisterY(m, (m.register_y + 1) % 256)
      [] opcode \in {\hC6, \hD6, \hCE, \hDE} ->
           StoreResult(got.cpu, at.ret, (got.ret + 255) % 256)
      [] opcode = \hCA -> SetRegisterX(m, (m.register_x + 255) % 256)
      [] opcode = \h88 -> SetRegisterY(m, (m.register_y + 255) % 256)
      \* jmp, jsr, rti, rts
      [] opcode \in {\h4C, \h6C} -> Jmp(m, mode)
      [] opcode = \h20 -> Jsr(m)
      [] opcode = \h40 -> Rti(m)
      [] opcode = \h60 -> Rts(m)
      \* adc, sbc
      [] opcode \in {\h69, \h65, \h75, \h6D, \h7D, \h79, \h61, \h71} ->
           AddToRegisterA(got.cpu, got.ret)
      [] opcode \in {\hE9, \hE5, \hF5, \hED, \hFD, \hF9, \hE1, \hF1} -> Sbc(got)
      [] OTHER -> CpuPanic(m, "unimplemented")

Execute(m, opcode, mode) ==
    ExecuteAt(m, opcode, mode, GetOperandAddress(m, mode),
              ReadAt(GetOperandAddress(m, mode)))

\* A halt on the no-operation opcode as well.
HaltOpcodesWithNop == { \h00, \hEA }

\* The BRK arm of the match: 0x00 => return
HaltOpcodes == { \h00 }

\* if self.pc == program_counter_old { self.pc += (instr.bytes - 1) as u16 }
Skip(old, bytes, done) ==
    IF done.fault = "none" /\ done.pc = old THEN PcFrom(AddU16(done, done.pc, bytes - 1))
    ELSE done

\* One turn of the loop of run_with_callback: the fetch, `self.pc += 1`, the
\* lookup in the opcode table, the match and the operand skip.
\* [cpu |-> the machine it leaves, returned |-> whether run returned,
\*  opcode |-> the byte fetched]
Turn(m, returned, opcode) == [cpu |-> m, returned |-> returned, opcode |-> opcode]

\* A lookup that lets a byte outside the table through as an instruction of
\* one byte that does nothing.
DispatchLenient(fetched, opcode) ==
    IF fetched.fault # "none" \/ opcode \notin DOMAIN OPCODES_MAP
    THEN Turn(fetched, FALSE, opcode)
    ELSE IF opcode \in HaltOpcodes THEN Turn(fetched, TRUE, opcode)
    ELSE Turn(Skip(fetched.pc, OPCODES_MAP[opcode].bytes,
                   Execute(fetched, opcode, OPCODES_MAP[opcode].addressing_mode)),
              FALSE, opcode)

Dispatch(fetched, opcode) ==
    IF fetched.fault # "none" THEN Turn(fetched, FALSE, opcode)
    ELSE IF opcode \notin DOMAIN OPCODES_MAP
    THEN Turn(CpuPanic(fetched, "unrecognized"), FALSE, opcode)
    ELSE IF opcode \in HaltOpcodes THEN Turn(fetched, TRUE, opcode)
    ELSE Turn(Skip(fetched.pc, OPCODES_MAP[opcode].bytes,
                   Execute(fetched, opcode, OPCODES_MAP[opcode].addressing_mode)),
              FALSE, opcode)

Decode(pc, fetch) == Dispatch(PcFrom(AddU16(fetch.cpu, pc, 1)), fetch.ret)

RunStep(m) == Decode(m.pc, CpuMemRead(m, m.pc))

\* CPU::run: the loop, turned until it returns or panics, or `fuel` turns
\* have been made.  [cpu, returned]
RECURSIVE Run(_, _)
RunOn(turn, fuel) ==
    IF turn.returned THEN [cpu |-> turn.cpu, returned |-> TRUE]
    ELSE Run(turn.cpu, fuel - 1)
Run(m, fuel) ==
    IF m.fault # "none" \/ fuel = 0 THEN [cpu |-> m, returned |-> FALSE]
    ELSE RunOn(RunStep(m), fuel)

(***************************************************************************)
(* The driver: a cartridge is loaded, a bus is built from it, and the bus  *)
(* is read and written until an access panics.                             *)
(***************************************************************************)
\* The cartridges: a 16 KiB, a 32 KiB and an 8 KiB program image, 8 KiB of
\* graphics, either mirroring mode.
Roms ==
    { [prg_rom |-> [len |-> \h4000, seed |-> 17], chr_rom |-> [len |-> \h2000, seed |-> 3],
       screen_mirroring |-> "Vertical"],
      [prg_rom |-> [len |-> \h2000, seed |-> 17], chr_rom |-> [len |-> \h2000, seed |-> 3],
       screen_mirroring |-> "Vertical"],
      [prg_rom |-> [len |-> \h8000, seed |-> 17], chr_rom |-> [len |-> \h2000, seed |-> 3],
       screen_mirroring |-> "Horizontal"] }

\* The addresses read: work RAM and a mirror of it, registers and a register
\* mirror, an unmapped address, a joypad port, cartridge space.
ReadAddrs ==
    { \h0000, \h0800, \h2000, \h2002, \h2004, \h2007, \h3FFA,
      \h4000, \h4016, \h8000, \hC000 }

\* The addresses written.
WriteAddrs ==
    { \h0000, \h1800, \h2000, \h2001, \h2002, \h2003, \h2004, \h2005, \h2006, \h2007,
      \h3FFE, \h4000, \h4014, \h8000 }

\* The bytes written.
WriteValues == { \h25, \h80 }

\* The writes made: every address with every byte, and the one DMA page
\* number that lies inside work RAM.
WriteInputs == (WriteAddrs \X WriteValues) \cup { <<\h4014, \h05>> }

Init ==
    /\ \E rom \in Roms : bus = BusNew(rom)
    /\ overflow_checks \in BOOLEAN
    /\ fault = "none"
    /\ last = [op |-> "new", addr |-> 0, value |-> 0]
    /\ ret = 0
    /\ prev = bus
    /\ steps = 0
    /\ cpu = CpuNew
    /\ cprev = CpuNew
    /\ phase = "idle"
    /\ log = [start |-> STACK_RESET, pushed |-> << >>, seen |-> << >>]

\* One call of Bus::mem_read.
ReadStep ==
    /\ fault = "none"
    /\ steps < MaxSteps
    /\ \E addr \in ReadAddrs :
         LET got == MemRead(bus, addr)
         IN  /\ bus' = got.bus
             /\ ret' = got.ret
             /\ fault' = got.fault
             /\ last' = [op |-> "read", addr |-> addr, value |-> 0]
    /\ prev' = bus
    /\ steps' = steps + 1
    /\ UNCHANGED <<overflow_checks, cpu, cprev, phase, log>>

\* One call of Bus::mem_write.
WriteStep ==
    /\ fault = "none"
    /\ steps < MaxSteps
    /\ \E input \in WriteInputs :
         LET addr  == input[1]
             value == input[2]
             got   == MemWrite(bus, addr, value, overflow_checks)
         IN  /\ bus' = got.bus
             /\ fault' = got.fault
             /\ last' = [op |-> "write", addr |-> addr, value |-> value]
    /\ prev' = bus
    /\ steps' = steps + 1
    /\ UNCHANGED <<overflow_checks, ret, cpu, cprev, phase, log>>

Next == ReadStep \/ WriteStep

Spec == Init /\ [][Next]_vars

\* One call of Bus::mem_write on the address register, with a byte that
\* leads the internal address to the end of the pattern tables (0x1F, then
\* 0x01) or to the palette (0x3F).
AddressStep ==
    /\ fault = "none"
    /\ steps < MaxSteps
    /\ \E value \in { \h1F, \h01, \h3F } :
         LET got == MemWrite(bus, \h2006, value, overflow_checks)
         IN  /\ bus' = got.bus
             /\ fault' = got.fault
             /\ last' = [op |-> "write", addr |-> \h2006, value |-> value]
    /\ prev' = bus
    /\ steps' = steps + 1
    /\ UNCHANGED <<overflow_checks, ret, cpu, cprev, phase, log>>

\* The bus driven with these address bytes as well.
NextPpu == ReadStep \/ WriteStep \/ AddressStep

SpecPpu == Init /\ [][NextPpu]_vars

(***************************************************************************)
(* The interpreter's driver, as the tests of src/src/cpu/cpu_tests.rs      *)
(* drive it: a CPU is built on a cartridge, and it is loaded, reset, poked *)
(* through its public fields and run.  One action is one call, or one turn *)
(* of the run loop.                                                        *)
(***************************************************************************)
\* Bound on the number of calls and loop turns of a session.
MaxCpuSteps == 6

\* A program image: `program` at the start of the cartridge window, the
\* reset vector (at the end of the image) pointing at it.
ProgramRom(len, program) ==
    [ prg_rom |-> [ len |-> len, seed |-> 17,
                    bytes |-> [i \in 0..(Len(program) - 1) |-> program[i + 1]]
                              @@ [i \in {len - 4} |-> \h00]
                              @@ [i \in {len - 3} |-> \h80] ],
      chr_rom |-> [len |-> \h2000, seed |-> 3],
      screen_mirroring |-> "Horizontal" ]

\* The programs held by the cartridges:
\*   LDA #$05; BRK
\*   LDA #$FF; ADC #$01; BRK
\*   NOP; PHA; PHP; PLA; BRK
\*   LDX #$FF; STX $10; INC $10; BNE +1; BRK
\*   JMP $8004; BRK; BRK; JSR $8008; BRK; RTS
RomPrograms ==
    { << \hA9, \h05, \h00 >>,
      << \hA9, \hFF, \h69, \h01, \h00 >>,
      << \hEA, \h48, \h08, \h68, \h00 >>,
      << \hA2, \hFF, \h86, \h10, \hE6, \h10, \hD0, \h01, \h00 >>,
      << \h4C, \h04, \h80, \h00, \h20, \h08, \h80, \h00, \h60 >> }

\* The cartridges: one per program; a 16 KiB one; and cartridges whose last
\* two bytes (0xFFFE and 0xFFFF, above the reset vector) hold code, LDA #$EA
\* (0xEA alone is NOP) or JMP with the low byte of its operand, under the
\* programs
\*   JMP $FFFF
\*   JMP $FFFE
\*   LDA #$FF; PHA; PHA; RTS
CpuRoms ==
    LET TopPrograms == { << \h4C, \hFF, \hFF >>,
                         << \h4C, \hFE, \hFF >>,
                         << \hA9, \hFF, \h48, \h48, \h60 >> }
        TopBytes == { << \hA9, \hEA >>, << \h4C, \h10 >> }
    IN  { ProgramRom(\h8000, program) : program \in RomPrograms }
        \cup { ProgramRom(\h4000, << \hA9, \h05, \h00 >>) }
        \cup { [ProgramRom(\h8000, program) EXCEPT
                   !.prg_rom.bytes = [i \in {\h7FFE} |-> top[1]]
                                     @@ [i \in {\h7FFF} |-> top[2]] @@ @] :
                program \in TopPrograms, top \in TopBytes }

\* The programs given to CPU::load.
LoadPrograms ==
    { << \hA9, \h05, \h00 >>, << \hA9, \h00, \h00 >>, << \hA9, \h80, \h00 >>,
      << \hA9, \hFF, \h69, \h01, \h00 >> }

\* The register values the driver pokes.
Pokes ==
    { [register_a |-> \h08, register_x |-> \h01, register_y |-> \hFF,
       stackptr |-> \h00, status |-> \b11000000],
      [register_a |-> \hFF, register_x |-> \h80, register_y |-> \h01,
       stackptr |-> \hFF, status |-> \b00110111] }

InitCpu ==
    /\ \E rom \in CpuRoms : bus = BusNew(rom)
    /\ overflow_checks \in BOOLEAN
    /\ cpu = CpuNew
    /\ cprev = CpuNew
    /\ phase = "idle"
    /\ log = [start |-> STACK_RESET, pushed |-> << >>, seen |-> << >>]
    /\ fault = "none"
    /\ last = [op |-> "new", addr |-> 0, value |-> 0]
    /\ ret = 0
    /\ prev = bus
    /\ steps = 0

\* What every call leaves behind: the machine, and the record of the call.
Leaves(m, op, addr, value) ==
    /\ cpu' = Registers(m)
    /\ bus' = m.bus
    /\ fault' = m.fault
    /\ last' = [op |-> op, addr |-> addr, value |-> value]
    /\ cprev' = cpu
    /\ prev' = bus
    /\ steps' = steps + 1
    /\ UNCHANGED overflow_checks

\* An observer called on every turn of the loop, the last one included.
CallbackEveryTurn(turn, record) ==
    [record EXCEPT !.seen = Append(@, Registers(turn.cpu))]

\* callback(self), the last statement of the loop body, for an observer that
\* records the registers of the CPU it is given: it is reached when the turn
\* neither returned nor panicked.
Callback(turn, record) ==
    IF turn.returned \/ turn.cpu.fault # "none" THEN record
    ELSE [record EXCEPT !.seen = Append(@, Registers(turn.cpu))]

\* What a turn of the run loop leaves behind.
TurnLeaves(turn) ==
    /\ Leaves(turn.cpu, "step", cpu.pc, turn.opcode)
    /\ phase' = IF turn.returned THEN "idle" ELSE "running"
    /\ log' = Callback(turn, log)

\* cpu.load(program)
CpuLoad ==
    /\ fault = "none" /\ phase = "idle" /\ steps < MaxCpuSteps
    /\ \E program \in LoadPrograms :
          Leaves(Load(Machine(cpu, bus), program), "load", \h0600, program)
    /\ UNCHANGED <<phase, log, ret>>

\* cpu.reset()
CpuReset ==
    /\ fault = "none" /\ phase = "idle" /\ steps < MaxCpuSteps
    /\ Leaves(Reset(Machine(cpu, bus)), "reset", \hFFFC, 0)
    /\ UNCHANGED <<phase, log, ret>>

\* cpu.register_a = ..; cpu.status.bits = ..; and so on
CpuPoke ==
    /\ fault = "none" /\ phase = "idle" /\ steps < MaxCpuSteps
    /\ \E poke \in Pokes :
          Leaves([Machine(cpu, bus) EXCEPT !.register_a = poke.register_a,
                                           !.register_x = poke.register_x,
                                           !.register_y = poke.register_y,
                                           !.stackptr = poke.stackptr,
                                           !.status = poke.status],
                 "poke", 0, 0)
    /\ UNCHANGED <<phase, log, ret>>

\* cpu.run(): one turn of its loop, the first of them being the call.
CpuRunStep ==
    /\ fault = "none"
    /\ steps < MaxCpuSteps
    /\ TurnLeaves(RunStep(Machine(cpu, bus)))
    /\ UNCHANGED ret

NextCpu == CpuLoad \/ CpuReset \/ CpuPoke \/ CpuRunStep

SpecCpu == InitCpu /\ [][NextCpu]_vars

(***************************************************************************)
(* One instruction at a time: run is entered on an interpreter whose       *)
(* registers hold sample values and whose work RAM holds an instruction at *)
(* the program counter, over a zero page and a stack page filled with      *)
(* data; the loop is turned.                                               *)
(***************************************************************************)
\* Bound on the number of loop turns.
MaxInstrs == 2

\* The bytes a register or an operand byte is drawn from.
ByteSamples == { \h00, \h01, \h7F, \h80, \hFF }

\* The index register values.
IndexSamples == { \h00, \h01, \hFF }

\* The status values: the reset value, one with BREAK, BREAK2 and CARRY, one
\* with NEGATIVE alone, and every flag but BREAK2 and INTERRUPT_DISABLE.
StatusSamples == { \b00100100, \b00110101, \b10000000, \b11011011 }

\* The high bytes of an absolute operand: the stack page, and a mirror of the
\* peripheral's registers.
HighSamples == { \h01, \h30 }

\* The instructions: every opcode of the table, and two bytes outside it,
\* with as many operand bytes as its descriptor says it has, and zeros after
\* them; and the jump and the call to 0x0601, the address of their own first
\* operand byte.
Instructions ==
    LET bytes(opcode) ==
            IF opcode \in DOMAIN OPCODES_MAP THEN OPCODES_MAP[opcode].bytes ELSE 1
    IN  UNION { { <<opcode, b1, b2>> :
                    b1 \in IF bytes(opcode) >= 2 THEN ByteSamples ELSE {0},
                    b2 \in IF bytes(opcode) >= 3 THEN HighSamples ELSE {0} } :
                opcode \in (DOMAIN OPCODES_MAP) \cup { \h02, \hFF } }
        \cup { << \h4C, \h01, \h06 >>, << \h20, \h01, \h06 >> }

\* The stack pointer that goes with an accumulator sample.
StackSample(a) == (a + \hFD) % 256

\* The cells of work RAM that hold data: the cells of the zero page and of
\* the stack page that an instruction of the samples can address.
DataCells ==
    LET offsets == {0} \cup IndexSamples \cup { 255 - x : x \in IndexSamples }
    IN  { (b + i + k) % 256 : b \in ByteSamples, i \in offsets, k \in {0, 1} }
        \cup { STACK + ((StackSample(a) + k) % 256) : a \in ByteSamples, k \in 0..3 }
        \cup { STACK + b + i : b \in ByteSamples, i \in offsets }

\* The data held by cell i: the zero page and the stack page differ cell by
\* cell, and the cells under the sampled stack pointers hold every
\* combination of the two break bits.
RamFill(i) == (i * 37 + (i \div 128) * 5 + 11) % 256

\* Work RAM with the instruction at 0x0600.
RamImage(instruction) ==
    LET at(i) == CASE i = \h0600 -> instruction[1]
                   [] i = \h0601 -> instruction[2]
                   [] i = \h0602 -> instruction[3]
                   [] OTHER -> RamFill(i)
        cells == DataCells \cup { \h0600, \h0601, \h0602 }
    IN  [i \in { c \in cells : at(c) # 0 } |-> at(i)]

\* The cartridge under the instruction driver: its reset vector and its
\* first bytes are those of a program image.
InstrRom == ProgramRom(\h8000, << \hA9, \hFF, \h69, \h01, \h00 >>)

InitInstr ==
    /\ \E instruction \in Instructions :
          bus = [BusNew(InstrRom) EXCEPT !.cpu_wram = RamImage(instruction)]
    /\ \E a \in ByteSamples, x \in IndexSamples, status \in StatusSamples :
          cpu = [ register_a |-> a,
                  register_x |-> x,
                  register_y |-> 255 - x,
                  stackptr   |-> StackSample(a),
                  status     |-> status,
                  pc         |-> \h0600 ]
    /\ overflow_checks \in BOOLEAN
    /\ cprev = cpu
    /\ phase = "running"
    /\ log = [start |-> STACK_RESET, pushed |-> << >>, seen |-> << >>]
    /\ fault = "none"
    /\ last = [op |-> "new", addr |-> 0, value |-> 0]
    /\ ret = 0
    /\ prev = bus
    /\ steps = 0

\* One turn of the loop of run.
InstrStep ==
    /\ fault = "none"
    /\ phase = "running"
    /\ steps < MaxInstrs
    /\ TurnLeaves(RunStep(Machine(cpu, bus)))
    /\ UNCHANGED ret

NextInstr == InstrStep

SpecInstr == InitInstr /\ [][NextInstr]_vars

(***************************************************************************)
(* The stack alone: from a starting offset, a page of bytes is pushed and  *)
(* then popped.                                                            *)
(***************************************************************************)
\* The starting offsets.
StackStarts == { \hFD, \hFF, \h00, \h7F }

\* The k-th byte pushed.
PushedByte(k) == (k * 101 + 7) % 256

InitStack ==
    /\ \E rom \in Roms : bus = BusNew(rom)
    /\ overflow_checks \in BOOLEAN
    /\ \E s \in StackStarts :
          /\ cpu = [CpuNew EXCEPT !.stackptr = s]
          /\ log = [start |-> s, pushed |-> << >>, seen |-> << >>]
    /\ cprev = cpu
    /\ phase = "pushing"
    /\ fault = "none"
    /\ last = [op |-> "new", addr |-> 0, value |-> 0]
    /\ ret = 0
    /\ prev = bus
    /\ steps = 0

\* cpu.stack_push(value)
PushStep ==
    /\ fault = "none"
    /\ phase = "pushing"
    /\ LET value == PushedByte(Len(log.pushed))
       IN  /\ Leaves(StackPush(Machine(cpu, bus), value), "push",
                     StackPtrAddr(cpu.stackptr), value)
           /\ log' = [log EXCEPT !.pushed = Append(log.pushed, value)]
    /\ phase' = IF Len(log.pushed) + 1 = 256 THEN "popping" ELSE "pushing"
    /\ UNCHANGED ret

\* cpu.stack_pop()
PopLeaves(got) ==
    /\ Leaves(got.cpu, "pop", StackPtrAddr(got.cpu.stackptr), got.ret)
    /\ ret' = got.ret

PopStep ==
    /\ fault = "none"
    /\ phase = "popping"
    /\ steps < 2 * Len(log.pushed)
    /\ PopLeaves(StackPop(Machine(cpu, bus)))
    /\ UNCHANGED <<phase, log>>

NextStack == PushStep \/ PopStep

SpecStack == InitStack /\ [][NextStack]_vars

(***************************************************************************)
(* The earlier revision of the interpreter that the tree keeps beside the  *)
(* current one (src/src/cpu.rs): a CPU with a flat memory of its own and   *)
(* no bus.  Its shifts and rotates of the accumulator and its loads        *)
(* through the indirect modes are modelled, as its tests drive them: a     *)
(* program of one such instruction and BRK is loaded at 0x8000, memory is  *)
(* written, the CPU is reset, registers are set and run is called.  The    *)
(* variable `bus` holds the CPU's memory.                                  *)
(***************************************************************************)
\* get_operand_address, in the arms AddressingMode::Indirect_X and Indirect_Y:
\* both take the pointer at (base + register_x) mod 256.
OldGetOperandAddress(m, mode) ==
    LET base == ArrayGet(m.bus.memory, m.pc)
        ptr == (base + m.register_x) % 256
        lo == ArrayGet(m.bus.memory, ptr)
        hi == ArrayGet(m.bus.memory, (ptr + 1) % 256)
    IN  CASE mode = "Indirect_X" -> lo + 256 * hi
          [] mode = "Indirect_Y" -> (lo + 256 * hi + m.register_y) % 65536

\* lda: the memory is an array of 0xFFFF bytes, and an index of 0xFFFF is out
\* of its bounds.
OldLda(m, mode) ==
    IF OldGetOperandAddress(m, mode) >= \hFFFF THEN CpuPanic(m, "index")
    ELSE UpdateZeroAndNegativeFlags(
             [m EXCEPT !.register_a = ArrayGet(m.bus.memory, OldGetOperandAddress(m, mode))],
             ArrayGet(m.bus.memory, OldGetOperandAddress(m, mode)))

\* asl, lsr, rol and ror, in the arm AddressingMode::NoneAddressing
OldShiftAccumulator(m, opcode) ==
    CASE opcode = \h0A ->
           UpdateZeroAndNegativeFlags([m EXCEPT !.register_a = (m.register_a * 2) % 256],
                                      (m.register_a * 2) % 256)
      [] opcode = \h4A ->
           UpdateZeroAndNegativeFlags([m EXCEPT !.register_a = m.register_a \div 2],
                                      m.register_x)
      [] opcode = \h2A ->
           UpdateZeroAndNegativeFlags(
               [m EXCEPT !.status = FlagSet(m.status, CpuFlag.CARRY, m.register_a >= 128),
                         !.register_a = ((m.register_a * 2) % 256) + CarryIn(m.status)],
               m.register_x)
      [] opcode = \h6A ->
           UpdateZeroAndNegativeFlags(
               [m EXCEPT !.status = FlagSet(m.status, CpuFlag.CARRY, m.register_a % 2 = 1),
                         !.register_a = (m.register_a \div 2) + 128 * CarryIn(m.status)],
               m.register_x)

\* load(program); memory writes; reset(); then the registers are set.  The
\* programs are a shift or a rotate of the accumulator, or LDA (b,X) or
\* LDA (b),Y, and BRK; the memory written holds pointers in the cells of the
\* zero page around 0x10 and around its end, and data in the pages above it.
InitOld ==
    /\ LET OldPrograms ==
                { << opcode, \h00 >> : opcode \in { \h0A, \h4A, \h2A, \h6A } }
                \cup { << opcode, b >> : opcode \in { \hA1, \hB1 }, b \in { \h10, \hFF } }
           OldData ==
                [i \in { \h0F, \h10, \h11, \h12 } |-> i - \h0E]
                @@ [i \in { \hFE, \hFF } |-> i - \hFC]
                @@ [i \in { \h00, \h01 } |-> i + 1]
                @@ [i \in \h0100..\h05FF |-> ((i * 7) % 251) + 1]
       IN  \E program \in OldPrograms :
              bus = [memory |-> [i \in { \h8000 } |-> program[1]]
                                @@ [i \in { \h8001 } |-> program[2]]
                                @@ [i \in { \hFFFD } |-> \h80]
                                @@ OldData]
    /\ \E a \in ByteSamples, x \in IndexSamples, status \in StatusSamples :
          cpu = [ register_a |-> a,
                  register_x |-> x,
                  register_y |-> 255 - x,
                  stackptr   |-> STACK_RESET,
                  status     |-> status,
                  pc         |-> \h8000 ]
    /\ overflow_checks \in BOOLEAN
    /\ cprev = cpu
    /\ phase = "running"
    /\ log = [start |-> STACK_RESET, pushed |-> << >>, seen |-> << >>]
    /\ fault = "none"
    /\ last = [op |-> "new", addr |-> 0, value |-> 0]
    /\ ret = 0
    /\ prev = bus
    /\ steps = 0

\* One turn of the loop of run: the fetch, `self.program_counter += 1`, the
\* match (BRK returns) and the operand skip.
OldRunStep ==
    /\ fault = "none"
    /\ phase = "running"
    /\ LET opcode == ArrayGet(bus.memory, cpu.pc)
           fetched == [Machine(cpu, bus) EXCEPT !.pc = cpu.pc + 1]
           done == IF opcode \in { \hA1, \hB1 }
                   THEN OldLda(fetched, OPCODES_MAP[opcode].addressing_mode)
                   ELSE OldShiftAccumulator(fetched, opcode)
       IN  IF opcode = \h00
           THEN Leaves(fetched, "step", cpu.pc, opcode) /\ phase' = "idle"
           ELSE /\ Leaves(Then(done, [done EXCEPT !.pc = done.pc + OPCODES_MAP[opcode].bytes - 1]),
                          "step", cpu.pc, opcode)
                /\ phase' = "running"
    /\ UNCHANGED <<log, ret>>

NextOld == OldRunStep

SpecOld == InitOld /\ [][NextOld]_vars

(***************************************************************************)
(* The address map of the specification, stated independently of the       *)
(* bus's own decoding.                                                     *)
(***************************************************************************)
InWorkRam(a)     == a \in 0..8191
InRegisters(a)   == a \in 8192..16383
InCartridge(a)   == a \in 32768..65535
IsDmaPort(a)     == a = 16404
InUnmapped(a)    == a \in 16384..32767
RegisterSlot(a)  == 8192 + (a % 8)
InRegisterMirrors(a) == a \in 8200..16383

LastRead  == last.op = "read"
LastWrite == last.op = "write"

(***************************************************************************)
(* C1.  Work-RAM mirroring: after a write of v to an address a of          *)
(* 0x0000-0x1FFF, a read of a and of each of the four addresses of that    *)
(* range congruent to a modulo 0x0800 returns v, and no RAM cell other     *)
(* than a mod 0x0800 has changed.                                          *)
(***************************************************************************)
C1_WorkRamMirroring ==
    (LastWrite /\ InWorkRam(last.addr)) =>
        LET cell == last.addr % 2048
        IN  /\ fault = "none"
            /\ \A k \in 0..3 :
                 LET got == MemRead(bus, cell + k * 2048)
                 IN  got.fault = "none" /\ got.ret = last.value
            /\ MemRead(bus, last.addr).ret = last.value
            /\ \A c \in ((DOMAIN bus.cpu_wram) \cup (DOMAIN prev.cpu_wram)) \ {cell} :
                 ArrayGet(bus.cpu_wram, c) = ArrayGet(prev.cpu_wram, c)

\* A write through the mirror 0x1800 has replaced the byte written at 0x0000.
C1_Witness ==
    /\ LastWrite /\ last.addr = 6144 /\ fault = "none"
    /\ ArrayGet(prev.cpu_wram, 0) # 0
    /\ ArrayGet(prev.cpu_wram, 0) # last.value
    /\ ArrayGet(bus.cpu_wram, 0) = last.value

(***************************************************************************)
(* C2.  Register mirroring: an access to an address a of 0x2008-0x3FFF     *)
(* returns the same byte and leaves the same state (or ends in the same    *)
(* panic) as the same access to 0x2000 + (a mod 8); checked for the access *)
(* just made and, wherever a next access can be made, for a mirror of each *)
(* of the eight slots.                                                     *)
(***************************************************************************)
MirrorProbes == { 8200, 8985, 10242, 11707, 12292, 13837, 15998, 16383 }

C2_RegisterMirroring ==
    /\ (LastRead /\ InRegisterMirrors(last.addr)) =>
          [bus |-> bus, ret |-> ret, fault |-> fault] = MemRead(prev, RegisterSlot(last.addr))
    /\ (LastWrite /\ InRegisterMirrors(last.addr)) =>
          LET got == MemWrite(prev, RegisterSlot(last.addr), last.value, overflow_checks)
          IN  bus = got.bus /\ fault = got.fault
    /\ (fault = "none" /\ steps < MaxSteps) =>
          \A a \in MirrorProbes :
              /\ MemRead(bus, a) = MemRead(bus, RegisterSlot(a))
              /\ \A v \in WriteValues :
                    MemWrite(bus, a, v, overflow_checks)
                        = MemWrite(bus, RegisterSlot(a), v, overflow_checks)

\* A write to 0x3FFE has acted as a write to the address register 0x2006.
C2_Witness ==
    /\ LastWrite /\ last.addr = 16382 /\ fault = "none"
    /\ bus.ppu.reg_address # prev.ppu.reg_address
    /\ bus.ppu_open_bus = last.value

(***************************************************************************)
(* C3.  A write to 0x8000-0xFFFF ends the session with the cartridge-write *)
(* panic, which no other write raises, and leaves the whole bus (program   *)
(* storage, work RAM, the register bank) as it was.                        *)
(***************************************************************************)
C3_CartridgeWriteFatal ==
    /\ (LastWrite /\ InCartridge(last.addr)) => (fault = "rom_write" /\ bus = prev)
    /\ fault = "rom_write" => (LastWrite /\ InCartridge(last.addr))

\* A cartridge write has ended a session whose RAM and registers were in use.
C3_Witness ==
    /\ LastWrite /\ last.addr = 32768 /\ fault = "rom_write"
    /\ prev.cpu_wram # EmptyArray
    /\ prev.ppu.reg_scroll.x # 0

(***************************************************************************)
(* C4.  A write to an address outside work RAM, the registers, the DMA     *)
(* port and cartridge storage is discarded: it changes nothing and does    *)
(* not end the session.                                                    *)
(***************************************************************************)
C4_UnmappedWriteDiscarded ==
    (LastWrite /\ InUnmapped(last.addr) /\ ~IsDmaPort(last.addr)) =>
        (fault = "none" /\ bus = prev)

(***************************************************************************)
(* C5.  A read of any address of 0x4000-0x7FFF never panics, returns the   *)
(* open-bus byte and changes nothing.                                      *)
(***************************************************************************)
C5_UnmappedReadOpenBus ==
    (LastRead /\ InUnmapped(last.addr)) =>
        (fault = "none" /\ ret = prev.open_bus /\ bus = prev)

(***************************************************************************)
(* C6.  One shared open-bus byte: after a register access that did not     *)
(* panic, with value v (the byte read, or the byte written), the next read *)
(* of an unmapped address returns v.                                       *)
(***************************************************************************)
C6_SharedOpenBus ==
    (fault = "none" /\ (LastRead \/ LastWrite) /\ InRegisters(last.addr)) =>
        LET v   == IF LastRead THEN ret ELSE last.value
            got == MemRead(bus, 16384)
        IN  got.fault = "none" /\ got.ret = v

(***************************************************************************)
(* C7.  A write of v to a write-only slot (0x2000, 0x2001, 0x2003, 0x2005, *)
(* 0x2006) does not panic, and a read of any write-only slot made next     *)
(* returns v.                                                              *)
(***************************************************************************)
WriteOnlySlots == { 8192, 8193, 8195, 8197, 8198 }

C7_WriteOnlySlots ==
    (LastWrite /\ last.addr \in WriteOnlySlots) =>
        /\ fault = "none"
        /\ \A slot \in WriteOnlySlots :
              LET got == MemRead(bus, slot)
              IN  got.fault = "none" /\ got.ret = last.value

(***************************************************************************)
(* C8.  A read of the status register (0x2002 or a mirror of it) leaves    *)
(* the address/scroll latch in its 'high byte next' state: the next scroll *)
(* write sets the first axis and leaves the second, and the next address   *)
(* write goes in at the high byte (it is applied at bit 8, and contributes *)
(* nothing at bit 0).                                                      *)
(***************************************************************************)
IsStatusPort(a) == InRegisters(a) /\ a % 8 = 2

C8_StatusReadResetsLatch ==
    (LastRead /\ IsStatusPort(last.addr) /\ fault = "none") =>
        /\ bus.ppu.address_latch = FALSE
        /\ \A v \in WriteValues :
              LET scrolled  == MemWrite(bus, 8197, v, overflow_checks)
                  addressed == MemWrite(bus, 8198, v, overflow_checks)
                  before    == bus.ppu.reg_address
                  after     == addressed.bus.ppu.reg_address
              IN  /\ scrolled.fault = "none"
                  /\ scrolled.bus.ppu.reg_scroll = [x |-> v, y |-> bus.ppu.reg_scroll.y]
                  /\ addressed.fault = "none" =>
                        /\ (after \div 256) = ((before \div 256) + v) % 256
                        /\ (after % 256) = BitOr(before % 256, 15)

\* A status read, through the mirror 0x3FFA, has reset a latch that a write
\* had set.
C8_Witness ==
    /\ LastRead /\ last.addr = 16378 /\ fault = "none"
    /\ prev.ppu.address_latch = TRUE
    /\ bus.ppu.address_latch = FALSE
    /\ prev.ppu.reg_address # 0

(***************************************************************************)
(* C9.  With the latch in its 'high byte next' state, whatever the address *)
(* register held, a write of h and then a write of l to the address        *)
(* register leave the address at 256 * h + l, and neither write panics.    *)
(***************************************************************************)
IsAddressPort(a) == InRegisters(a) /\ a % 8 = 6

C9_AddressLatchBytes ==
    (LastWrite /\ IsAddressPort(last.addr) /\ ~prev.ppu.address_latch) =>
        /\ fault = "none"
        /\ \A l \in WriteValues :
              LET got == MemWrite(bus, 8198, l, overflow_checks)
              IN  /\ got.fault = "none"
                  /\ got.bus.ppu.reg_address = 256 * last.value + l

(***************************************************************************)
(* C10.  On a bus just built, two writes of 0x80 to the address register   *)
(* leave the address at 0x8000.                                            *)
(***************************************************************************)
C10_AddressTwice80 ==
    ( /\ steps = 2 /\ LastWrite /\ last.addr = 8198 /\ last.value = 128
      /\ \E rom \in Roms :
            prev = MemWrite(BusNew(rom), 8198, 128, overflow_checks).bus ) =>
        (fault = "none" /\ bus.ppu.reg_address = 32768)

(***************************************************************************)
(* C11.  The address/scroll latch alternates on every write: the second    *)
(* write to the address or scroll register since creation is a second      *)
(* step, so the write after it is a first step again: a scroll write then  *)
(* sets the first axis and leaves the second.                              *)
(***************************************************************************)
IsScrollPort(a) == InRegisters(a) /\ a % 8 = 5

LatchPorts == { a \in WriteAddrs : IsScrollPort(a) \/ IsAddressPort(a) }

C11_LatchAlternates ==
    ( /\ steps = 2 /\ LastWrite /\ fault = "none"
      /\ IsScrollPort(last.addr) \/ IsAddressPort(last.addr)
      /\ \E rom \in Roms, a \in LatchPorts, v \in WriteValues :
            prev = MemWrite(BusNew(rom), a, v, overflow_checks).bus ) =>
        \A v \in WriteValues :
            LET third == MemWrite(bus, 8197, v, overflow_checks)
            IN  /\ third.fault = "none"
                /\ third.bus.ppu.reg_scroll = [x |-> v, y |-> bus.ppu.reg_scroll.y]

(***************************************************************************)
(* C12.  reset, from any state: the accumulator and both index registers   *)
(* are 0, the stack offset is 0xFD, the flag byte is 0x24, the program     *)
(* counter is read(0xFFFC) + 256 * read(0xFFFD), and no memory is written: *)
(* work RAM, the cartridge and the peripheral are as before.               *)
(***************************************************************************)
LastReset == last.op = "reset"

ResetVectorOf(b) ==
    LET lo == MemRead(b, 65532)
        hi == MemRead(lo.bus, 65533)
    IN  lo.ret + 256 * hi.ret

C12_ResetPowerUp ==
    LastReset =>
        /\ fault = "none"
        /\ cpu.register_a = 0
        /\ cpu.register_x = 0
        /\ cpu.register_y = 0
        /\ cpu.stackptr = 253
        /\ cpu.status = 36
        /\ cpu.pc = ResetVectorOf(prev)
        /\ bus.cpu_wram = prev.cpu_wram
        /\ bus.prg_rom = prev.prg_rom
        /\ bus.ppu = prev.ppu

\* A reset of an interpreter whose registers, stack offset, flags and
\* program counter all differ from their values after reset.
C12_Witness ==
    /\ LastReset
    /\ fault = "none"
    /\ cprev.register_a # 0
    /\ cprev.register_x # 0
    /\ cprev.register_y # 0
    /\ cprev.stackptr # 253
    /\ cprev.status # 36
    /\ cprev.pc # cpu.pc
    /\ cpu.pc = 32768

(***************************************************************************)
(* C13.  load(program) followed by reset completes without a fatal error:  *)
(* the reset vector is stored by ordinary bus writes, and after the reset  *)
(* the program counter is the address that holds the program's first byte, *)
(* so that a bus read at the program counter returns that byte.            *)
(***************************************************************************)
LastLoad == last.op = "load"

C13_LoadThenReset ==
    LastLoad =>
        /\ fault = "none"
        /\ LET after == Reset(Machine(cpu, bus))
           IN  /\ after.fault = "none"
               /\ MemRead(after.bus, after.pc).ret = last.value[1]

(***************************************************************************)
(* C14.  For every byte v, loading the program 0xA9, v, 0x00, resetting    *)
(* and running leaves the accumulator equal to v, the zero flag set        *)
(* exactly when v = 0 and the negative flag set exactly when bit 7 of v is *)
(* set.                                                                    *)
(***************************************************************************)
LoadImmediateProgram ==
    /\ LastLoad
    /\ Len(last.value) = 3
    /\ last.value[1] = 169
    /\ last.value[3] = 0

C14_LoadImmediateScenario ==
    LoadImmediateProgram =>
        /\ fault = "none"
        /\ LET done == Run(Reset(Machine(cpu, bus)), MaxCpuSteps)
               v    == last.value[2]
           IN  /\ done.returned
               /\ done.cpu.fault = "none"
               /\ done.cpu.register_a = v
               /\ Contains(done.cpu.status, CpuFlag.ZERO) <=> v = 0
               /\ Contains(done.cpu.status, CpuFlag.NEGATIVE) <=> v >= 128

(***************************************************************************)
(* C15.  Add with carry: for every accumulator a, operand m and incoming   *)
(* carry c, ADC leaves the accumulator equal to (a + m + c) mod 256, the   *)
(* carry flag set exactly when a + m + c > 255, the overflow flag set      *)
(* exactly when a and m have the same sign bit and the result's sign bit   *)
(* differs, and the zero and negative flags derived from the result; and   *)
(* the program 0xA9 0xFF 0x69 0x01 0x00, after reset and run, leaves the   *)
(* accumulator 0 with carry and zero set.                                  *)
(***************************************************************************)
LastStep == last.op = "step"

\* The interpreter just after the fetch of the instruction last executed.
Fetched ==
    LET fetch == CpuMemRead(Machine(cprev, prev), cprev.pc)
    IN  [fetch.cpu EXCEPT !.pc = (cprev.pc + 1) % 65536]

\* The operand byte the instruction last executed has read.
OperandByte ==
    ReadAt(GetOperandAddress(Fetched, OPCODES_MAP[last.value].addressing_mode)).ret

SignBit(byte) == byte >= 128

AdcOpcodes == { 105, 101, 117, 109, 125, 121, 97, 113 }

AdcProgram ==
    /\ VecAt(bus.prg_rom, 0) = 169
    /\ VecAt(bus.prg_rom, 1) = 255
    /\ VecAt(bus.prg_rom, 2) = 105
    /\ VecAt(bus.prg_rom, 3) = 1
    /\ VecAt(bus.prg_rom, 4) = 0
    /\ ResetVectorOf(bus) = 32768

LastPush == last.op = "push"
LastPop  == last.op = "pop"

\* The number of pops made so far.
Pops == steps - Len(log.pushed)

C16_StackLifo ==
    /\ LastPush =>
          /\ fault = "none"
          /\ bus.cpu_wram = ArrayPut(prev.cpu_wram, 256 + cprev.stackptr, last.value)
          /\ cpu.stackptr = (cprev.stackptr + 255) % 256
    /\ LastPop =>
          /\ fault = "none"
          /\ cpu.stackptr = (cprev.stackptr + 1) % 256
          /\ ret = ArrayGet(prev.cpu_wram, 256 + cpu.stackptr)
          /\ bus.cpu_wram = prev.cpu_wram
          /\ ret = log.pushed[Len(log.pushed) + 1 - Pops]
    /\ (LastPop /\ Pops = 256) => cpu.stackptr = log.start

\* The last of 256 pops after 256 pushes from offset 0x7F: the offset has
\* wrapped on the way down and on the way up, and the byte popped is the
\* first one pushed.
C16_Witness ==
    /\ LastPop
    /\ fault = "none"
    /\ Len(log.pushed) = 256
    /\ Pops = 256
    /\ log.start = 127
    /\ cpu.stackptr = 127
    /\ ret = log.pushed[1]
    /\ log.pushed[1] # log.pushed[256]

(***************************************************************************)
(* C17.  Flag push and pull: for every status value f, PHP stores f with   *)
(* break and break2 both set on the stack and leaves the status register   *)
(* unchanged; for every stacked byte b, PLP and RTI load b into the status *)
(* register with break cleared and break2 set, whatever b's break and      *)
(* break2 bits were.                                                       *)
(***************************************************************************)
PhpOpcode == \h08
PullOpcodes == { \h28, \h40 }

\* The byte on top of the stack before the instruction last executed.
StackedByte == ArrayGet(prev.cpu_wram, 256 + ((cprev.stackptr + 1) % 256))

\* Bit k of a byte.
BitOf(byte, k) == (byte \div (2 ^ k)) % 2

C17_FlagPushPull ==
    /\ (LastStep /\ fault = "none" /\ last.value = PhpOpcode) =>
          LET pushed == ArrayGet(bus.cpu_wram, 256 + cprev.stackptr)
          IN  /\ \A k \in 0..7 :
                    BitOf(pushed, k) = IF k \in {4, 5} THEN 1 ELSE BitOf(cprev.status, k)
              /\ cpu.status = cprev.status
              /\ cpu.stackptr = (cprev.stackptr + 255) % 256
    /\ (LastStep /\ fault = "none" /\ last.value \in PullOpcodes) =>
          \A k \in 0..7 :
              BitOf(cpu.status, k) =
                  CASE k = 4 -> 0
                    [] k = 5 -> 1
                    [] OTHER -> BitOf(StackedByte, k)

\* A PLP or RTI of a stacked byte with break set and break2 clear.
C17_Witness ==
    /\ LastStep
    /\ fault = "none"
    /\ last.value \in PullOpcodes
    /\ BitOf(StackedByte, 4) = 1
    /\ BitOf(StackedByte, 5) = 0
    /\ BitOf(cpu.status, 4) = 0
    /\ BitOf(cpu.status, 5) = 1

(***************************************************************************)
(* C18.  Indirect-jump page bug: for the indirect jump with pointer        *)
(* address p, the new program counter has low byte read(p) and high byte   *)
(* read(p & 0xFF00) when p's low byte is 0xFF (a pointer at 0x30FF takes   *)
(* its high byte from 0x3000, not 0x3100), and high byte read(p + 1)       *)
(* otherwise.                                                              *)
(***************************************************************************)
JmpIndirectOpcode == \h6C

\* The bus reads of the three bytes of the instruction last executed.
FetchRead   == MemRead(prev, cprev.pc)
OperandLow  == MemRead(FetchRead.bus, (cprev.pc + 1) % 65536)
OperandHigh == MemRead(OperandLow.bus, (cprev.pc + 2) % 65536)

\* The pointer address held by the operand, and the bus once it is read.
PointerAddress == OperandLow.ret + 256 * OperandHigh.ret
BusAfterOperand == OperandHigh.bus

\* Where the claim has the high byte read.
HighByteAddress(p) == IF p % 256 = 255 THEN p - 255 ELSE p + 1

LdaZeroPageX == \hB5
LdxZeroPageY == \hB6
StaZeroPageX == \h95
StxZeroPageY == \h96

\* The effective address the claim gives for operand byte b and index i.
WrappedSum(b, i) == (b + i) % 256

C19_ZeroPageIndexedWraps ==
    /\ fault = "none" =>
          LET m  == Machine(cpu, bus)
              b  == MemRead(bus, cpu.pc).ret
              ax == GetOperandAddress(m, "ZeroPage_X")
              ay == GetOperandAddress(m, "ZeroPage_Y")
          IN  /\ ax.cpu.fault = "none" =>
                    /\ ax.ret = WrappedSum(b, cpu.register_x)
                    /\ ax.ret \in 0..255
              /\ ay.cpu.fault = "none" =>
                    /\ ay.ret = WrappedSum(b, cpu.register_y)
                    /\ ay.ret \in 0..255
    /\ (LastStep /\ fault = "none" /\ last.value = LdaZeroPageX) =>
          cpu.register_a =
              ArrayGet(prev.cpu_wram, WrappedSum(OperandLow.ret, cprev.register_x))
    /\ (LastStep /\ fault = "none" /\ last.value = LdxZeroPageY) =>
          cpu.register_x =
              ArrayGet(prev.cpu_wram, WrappedSum(OperandLow.ret, cprev.register_y))
    /\ (LastStep /\ fault = "none" /\ last.value = StaZeroPageX) =>
          bus.cpu_wram =
              ArrayPut(prev.cpu_wram, WrappedSum(OperandLow.ret, cprev.register_x),
                       cprev.register_a)
    /\ (LastStep /\ fault = "none" /\ last.value = StxZeroPageY) =>
          bus.cpu_wram =
              ArrayPut(prev.cpu_wram, WrappedSum(OperandLow.ret, cprev.register_y),
                       cprev.register_x)

\* A load through ZeroPage_X whose operand and index add up past 0xFF: the
\* byte loaded is the one of the zero page, which differs from the byte of
\* the stack page at the unwrapped sum.
C19_Witness ==
    /\ LastStep
    /\ fault = "none"
    /\ last.value = LdaZeroPageX
    /\ OperandLow.ret + cprev.register_x > 255
    /\ cpu.register_a = ArrayGet(prev.cpu_wram, OperandLow.ret + cprev.register_x - 256)
    /\ cpu.register_a # ArrayGet(prev.cpu_wram, OperandLow.ret + cprev.register_x)

(***************************************************************************)
(* C20.  run returns exactly when the halt opcode 0x00 is executed: absent *)
(* a fatal condition, a turn of the loop ends the run if and only if the   *)
(* opcode it fetched is 0x00, and the loop goes on otherwise.  Executing   *)
(* the halt opcode changes no register, flag, stack byte or memory cell;   *)
(* it only advances the program counter by one.                            *)
(***************************************************************************)
HaltOpcode == \h00

Returned == phase = "idle"

C20_RunReturnsOnHalt ==
    (LastStep /\ fault = "none") =>
        /\ Returned <=> last.value = HaltOpcode
        /\ last.value = HaltOpcode =>
              /\ cpu = [cprev EXCEPT !.pc = (cprev.pc + 1) % 65536]
              /\ bus.cpu_wram = prev.cpu_wram
              /\ bus.ppu.vram = prev.ppu.vram
              /\ bus.ppu.oam_data = prev.ppu.oam_data
              /\ bus.prg_rom = prev.prg_rom

\* A run that executed an instruction other than the halt opcode, went on,
\* and returned on the halt opcode it fetched next, with registers that are
\* not zero.
C20_Witness ==
    /\ LastStep
    /\ fault = "none"
    /\ steps = 2
    /\ last.value = HaltOpcode
    /\ Returned
    /\ cprev.register_a # 0
    /\ cprev.register_x # 0
    /\ cpu.pc = cprev.pc + 1
    /\ cpu.stackptr = cprev.stackptr
    /\ cpu.status = cprev.status

(***************************************************************************)
(* C21.  Fetching an opcode byte that has no descriptor in the opcode      *)
(* table, or that has a descriptor and no arm in the match, ends the       *)
(* session with a fatal condition at that fetch: the instruction changes   *)
(* no register, flag or memory cell (the program counter alone has         *)
(* advanced by one), and no later instruction is executed: the state the   *)
(* panic left is the state of that fetch.                                  *)
(***************************************************************************)
Unrecognised(opcode) == opcode \notin DOMAIN OPCODES_MAP

Unhandled(opcode) ==
    /\ opcode \in DOMAIN OPCODES_MAP
    /\ opcode \notin HaltOpcodes
    /\ Execute(Fetched, opcode, OPCODES_MAP[opcode].addressing_mode).fault = "unimplemented"

C21_UnrecognisedOpcodeFatal ==
    /\ (LastStep /\ (Unrecognised(last.value) \/ Unhandled(last.value))) =>
          /\ fault # "none"
          /\ phase = "running"
          /\ cpu.register_a = cprev.register_a
          /\ cpu.register_x = cprev.register_x
          /\ cpu.register_y = cprev.register_y
          /\ cpu.stackptr = cprev.stackptr
          /\ cpu.status = cprev.status
          /\ fault \in {"unrecognized", "unimplemented"} => cpu.pc = cprev.pc + 1
          /\ bus.cpu_wram = prev.cpu_wram
          /\ bus.ppu = FetchRead.bus.ppu
          /\ bus.prg_rom = prev.prg_rom
    /\ fault \in {"unrecognized", "unimplemented"} =>
          /\ LastStep
          /\ Unrecognised(last.value) \/ Unhandled(last.value)
          /\ FetchRead.ret = last.value
          /\ last.addr = cprev.pc

\* A byte outside the table fetched from work RAM as the second instruction
\* of a run, with registers that are not zero.
C21_Witness ==
    /\ LastStep
    /\ steps = 2
    /\ Unrecognised(last.value)
    /\ fault = "unrecognized"
    /\ cpu.register_a # 0
    /\ cpu.register_x # 0
    /\ cpu.pc = cprev.pc + 1

(***************************************************************************)
(* C22.  The program counter wraps modulo 65536 on every update and never  *)
(* raises an overflow fault: the fetch of an opcode at 0xFFFF, the skip of *)
(* operand bytes past 0xFFFF, the return from a subroutine whose stacked   *)
(* address is 0xFFFF and a 16-bit read whose low byte is at 0xFFFF all     *)
(* complete, with wrapped arithmetic.                                      *)
(***************************************************************************)
NopOpcode == \hEA
LdaImmediate == \hA9
RtsOpcode == \h60
JmpAbsolute == \h4C

\* The address on top of the stack before the instruction last executed.
StackedAddress ==
    ArrayGet(prev.cpu_wram, StackPtrAddr(StackPtrDec(cprev.stackptr)))
    + 256 * ArrayGet(prev.cpu_wram, StackPtrAddr(StackPtrDec(StackPtrDec(cprev.stackptr))))

FetchAtTop == LastStep /\ cprev.pc = \hFFFF /\ last.value = NopOpcode
SkipPastTop == LastStep /\ cprev.pc = \hFFFE /\ last.value = LdaImmediate
ReturnToTop == LastStep /\ last.value = RtsOpcode /\ StackedAddress = \hFFFF
ReadAcrossTop == LastStep /\ cprev.pc = \hFFFE /\ last.value = JmpAbsolute

C22_ProgramCounterWraps ==
    /\ LastStep => fault # "overflow"
    /\ FetchAtTop => cpu.pc = 0
    /\ SkipPastTop => cpu.pc = 0 /\ cpu.register_a = OperandLow.ret
    /\ ReturnToTop => cpu.pc = 0
    /\ ReadAcrossTop => cpu.pc = OperandLow.ret + 256 * ArrayGet(prev.cpu_wram, 0)

(***************************************************************************)
(* C23.  For every cartridge image whose length L is smaller than the      *)
(* 32,768-byte window and every address a in 0x8000-0xFFFF, a bus read of  *)
(* a returns image[(a - 0x8000) mod L] and never faults; for L = 16,384    *)
(* this makes 0xC000-0xFFFF a mirror of 0x8000-0xBFFF.                     *)
(***************************************************************************)
CartridgeWindow == \h8000

ShortImage(b) == VecLen(b.prg_rom) < CartridgeWindow

C23_ShortImageWraps ==
    (LastRead /\ InCartridge(last.addr) /\ ShortImage(prev)) =>
        /\ fault = "none"
        /\ ret = VecAt(prev.prg_rom, (last.addr - CartridgeWindow) % VecLen(prev.prg_rom))
        /\ VecLen(prev.prg_rom) = \h4000 /\ last.addr >= \hC000 =>
              ret = MemRead(prev, last.addr - \h4000).ret

\* What the code does: the wrap for an image of 16,384 bytes.
C23_SixteenKWraps ==
    (LastRead /\ InCartridge(last.addr) /\ VecLen(prev.prg_rom) = \h4000) =>
        /\ fault = "none"
        /\ ret = VecAt(prev.prg_rom, (last.addr - CartridgeWindow) % \h4000)

(***************************************************************************)
(* C24.  run_with_callback invokes the observer exactly once after each    *)
(* completed instruction, in execution order and after the instruction's   *)
(* program-counter adjustment: what the observer has seen is one entry per *)
(* completed turn, the last entry being the registers the turn left and    *)
(* the entry before it the registers the turn started from.  It is not     *)
(* invoked for the halting fetch nor for an instruction that panicked.     *)
(***************************************************************************)
Seen == log.seen

\* The turns completed so far: every turn, but one that returned or panicked.
Completed == IF steps > 0 /\ (fault # "none" \/ Returned) THEN steps - 1 ELSE steps

C24_ObserverOncePerInstruction ==
    /\ Len(Seen) = Completed
    /\ (LastStep /\ fault = "none" /\ ~Returned) =>
          /\ Seen[Len(Seen)] = cpu
          /\ OPCODES_MAP[last.value].addressing_mode = "Immediate" =>
                Seen[Len(Seen)].pc = (cprev.pc + 2) % 65536
    /\ (LastStep /\ steps >= 2) => Seen[steps - 1] = cprev

\* Two instructions completed, the second of them with an operand to skip
\* and a register to change, seen once each, the first before the second.
C24_Witness ==
    /\ LastStep
    /\ steps = 2
    /\ fault = "none"
    /\ ~Returned
    /\ Len(Seen) = 2
    /\ Seen[2] = cpu
    /\ Seen[2].pc = Seen[1].pc + 2
    /\ Seen[2].register_a # Seen[1].register_a

\* A run that halted on its second fetch: the observer saw the first
\* instruction alone.
C24_WitnessHalt ==
    /\ LastStep /\ steps = 2 /\ Returned /\ Len(Seen) = 1

(***************************************************************************)
(* C25.  Branches: for each of the eight branch instructions and every     *)
(* signed displacement d in -128..127, when the instruction's flag         *)
(* condition holds the program counter after the instruction is (address   *)
(* of the displacement byte + 1 + d) mod 65536 exactly, d = -1 and d = 0   *)
(* included, and when it does not hold it is the address of the            *)
(* displacement byte + 1; no flag and no register other than the program   *)
(* counter changes.                                                        *)
(***************************************************************************)
\* The flag each branch opcode tests, and the value it branches on.
BranchOn ==
    [o \in { \h10, \h30, \h50, \h70, \h90, \hB0, \hD0, \hF0 } |->
        CASE o = \h10 -> [flag |-> CpuFlag.NEGATIVE, set |-> FALSE]
          [] o = \h30 -> [flag |-> CpuFlag.NEGATIVE, set |-> TRUE]
          [] o = \h50 -> [flag |-> CpuFlag.OVERFLOW, set |-> FALSE]
          [] o = \h70 -> [flag |-> CpuFlag.OVERFLOW, set |-> TRUE]
          [] o = \h90 -> [flag |-> CpuFlag.CARRY, set |-> FALSE]
          [] o = \hB0 -> [flag |-> CpuFlag.CARRY, set |-> TRUE]
          [] o = \hD0 -> [flag |-> CpuFlag.ZERO, set |-> FALSE]
          [] o = \hF0 -> [flag |-> CpuFlag.ZERO, set |-> TRUE]]

LastBranch == LastStep /\ fault = "none" /\ last.value \in DOMAIN BranchOn

ConditionHolds == Contains(cprev.status, BranchOn[last.value].flag) = BranchOn[last.value].set

\* The address of the displacement byte, and the displacement as a signed
\* number.
DisplacementAddress == (cprev.pc + 1) % 65536
Displacement == IF OperandLow.ret >= 128 THEN OperandLow.ret - 256 ELSE OperandLow.ret

C25_Branches ==
    LastBranch =>
        /\ ConditionHolds =>
              cpu.pc = (DisplacementAddress + 1 + Displacement + 65536) % 65536
        /\ ~ConditionHolds => cpu.pc = (DisplacementAddress + 1) % 65536
        /\ cpu = [cprev EXCEPT !.pc = cpu.pc]

(***************************************************************************)
(* C26.  The operand skip (advance by the byte length minus one) is        *)
(* applied to every instruction that did not redirect the program counter  *)
(* and to no instruction that did: after a jump (absolute or indirect), a  *)
(* call or a return, the program counter equals the redirect target        *)
(* exactly, for every target address, the address of the instruction's own *)
(* first operand byte included.                                            *)
(***************************************************************************)
JsrOpcode == \h20
RtiOpcode == \h40

\* The address under the status byte on top of the stack before the
\* instruction last executed.
StackedUnderStatus ==
    ArrayGet(prev.cpu_wram, StackPtrAddr(StackPtrDec(StackPtrDec(cprev.stackptr))))
    + 256 * ArrayGet(prev.cpu_wram,
                     StackPtrAddr(StackPtrDec(StackPtrDec(StackPtrDec(cprev.stackptr)))))

\* The target of the indirect jump, the page bug included.
IndirectTarget ==
    MemRead(BusAfterOperand, PointerAddress).ret
    + 256 * MemRead(BusAfterOperand, HighByteAddress(PointerAddress)).ret

Redirects == { JmpAbsolute, JmpIndirectOpcode, JsrOpcode, RtsOpcode, RtiOpcode }

\* The instruction last executed ran from outside the stack page and left
\* the loop running.
LastCompleted == LastStep /\ fault = "none" /\ ~Returned /\ cprev.pc \div 256 # 1

RedirectTarget ==
    CASE last.value = JmpAbsolute -> PointerAddress
      [] last.value = JsrOpcode -> PointerAddress
      [] last.value = JmpIndirectOpcode -> IndirectTarget
      [] last.value = RtsOpcode -> (StackedAddress + 1) % 65536
      [] last.value = RtiOpcode -> StackedUnderStatus

C26_OperandSkip ==
    LastCompleted =>
        /\ last.value \in Redirects => cpu.pc = RedirectTarget
        /\ last.value \notin Redirects \cup DOMAIN BranchOn =>
              cpu.pc = (cprev.pc + OPCODES_MAP[last.value].bytes) % 65536

(***************************************************************************)
(* C27.  Uniform zero/negative rule: every load, transfer, increment or    *)
(* decrement, logical, shift or rotate, pull-accumulator and add or        *)
(* subtract instruction that produces a result byte r (in A, X, Y or       *)
(* memory) leaves the zero flag = (r = 0) and the negative flag = (bit 7   *)
(* of r), computed from the byte it actually stored; increments and        *)
(* decrements wrap modulo 256.                                             *)
(***************************************************************************)
\* The opcodes whose result goes to the accumulator: LDA, TXA, TYA, PLA,
\* AND, ORA, EOR, ADC, SBC, and the shifts and rotates of the accumulator.
AccumulatorShifts == { \h0A, \h4A, \h2A, \h6A }

IntoA ==
    { \hA9, \hA5, \hB5, \hAD, \hBD, \hB9, \hA1, \hB1, \h8A, \h98, \h68,
      \h29, \h25, \h35, \h2D, \h3D, \h39, \h21, \h31,
      \h09, \h05, \h15, \h0D, \h1D, \h19, \h01, \h11,
      \h49, \h45, \h55, \h4D, \h5D, \h59, \h41, \h51,
      \h69, \h65, \h75, \h6D, \h7D, \h79, \h61, \h71,
      \hE9, \hE5, \hF5, \hED, \hFD, \hF9, \hE1, \hF1 } \cup AccumulatorShifts

\* To X: LDX, TAX, TSX, INX, DEX.  To Y: LDY, TAY, INY, DEY.
IntoX == { \hA2, \hA6, \hB6, \hAE, \hBE, \hAA, \hBA, \hE8, \hCA }
IntoY == { \hA0, \hA4, \hB4, \hAC, \hBC, \hA8, \hC8, \h88 }

\* To memory: INC, DEC, and the shifts and rotates of memory.
IncMemory == { \hE6, \hF6, \hEE, \hFE }
DecMemory == { \hC6, \hD6, \hCE, \hDE }
MemoryShifts ==
    { \h06, \h16, \h0E, \h1E, \h46, \h56, \h4E, \h5E,
      \h26, \h36, \h2E, \h3E, \h66, \h76, \h6E, \h7E }
IntoMemory == IncMemory \cup DecMemory \cup MemoryShifts

\* The address of the operand of the instruction last executed, and whether
\* it is a cell of work RAM.
OperandAddress ==
    GetOperandAddress(Fetched, OPCODES_MAP[last.value].addressing_mode).ret

OperandInRam == OperandAddress < \h2000

\* The byte the instruction last executed has stored.
ResultByte ==
    CASE last.value \in IntoA -> cpu.register_a
      [] last.value \in IntoX -> cpu.register_x
      [] last.value \in IntoY -> cpu.register_y
      [] last.value \in IntoMemory -> ArrayGet(bus.cpu_wram, MirrorRamAddr(OperandAddress))

HasResult ==
    /\ LastStep
    /\ fault = "none"
    /\ last.value \in IntoA \cup IntoX \cup IntoY \cup IntoMemory
    /\ last.value \in IntoMemory => OperandInRam

C27_ZeroNegativeRule ==
    HasResult =>
        /\ Contains(cpu.status, CpuFlag.ZERO) <=> ResultByte = 0
        /\ Contains(cpu.status, CpuFlag.NEGATIVE) <=> ResultByte >= 128
        /\ last.value = \hE8 => cpu.register_x = (cprev.register_x + 1) % 256
        /\ last.value = \hC8 => cpu.register_y = (cprev.register_y + 1) % 256
        /\ last.value = \hCA => cpu.register_x = (cprev.register_x + 255) % 256
        /\ last.value = \h88 => cpu.register_y = (cprev.register_y + 255) % 256
        /\ last.value \in IncMemory => ResultByte = (OperandByte + 1) % 256
        /\ last.value \in DecMemory => ResultByte = (OperandByte + 255) % 256

(***************************************************************************)
(* C28.  Compare instructions (CMP, CPX, CPY): for every register value r  *)
(* and operand m, carry is set exactly when r >= m, zero exactly when      *)
(* r = m, negative equals bit 7 of (r - m) mod 256, and the accumulator,   *)
(* the index registers, the overflow flag and memory are left unchanged.   *)
(***************************************************************************)
CmpOpcodes == { \hC9, \hC5, \hD5, \hCD, \hDD, \hD9, \hC1, \hD1 }
CpxOpcodes == { \hE0, \hE4, \hEC }
CpyOpcodes == { \hC0, \hC4, \hCC }

LastCompare ==
    LastStep /\ fault = "none" /\ last.value \in CmpOpcodes \cup CpxOpcodes \cup CpyOpcodes

\* The register the instruction last executed compares.
Compared ==
    CASE last.value \in CmpOpcodes -> cprev.register_a
      [] last.value \in CpxOpcodes -> cprev.register_x
      [] last.value \in CpyOpcodes -> cprev.register_y

C28_Compare ==
    LastCompare =>
        /\ Contains(cpu.status, CpuFlag.CARRY) <=> Compared >= OperandByte
        /\ Contains(cpu.status, CpuFlag.ZERO) <=> Compared = OperandByte
        /\ Contains(cpu.status, CpuFlag.NEGATIVE)
              <=> BitOf((Compared - OperandByte + 256) % 256, 7) = 1
        /\ Contains(cpu.status, CpuFlag.OVERFLOW) <=> Contains(cprev.status, CpuFlag.OVERFLOW)
        /\ cpu.register_a = cprev.register_a
        /\ cpu.register_x = cprev.register_x
        /\ cpu.register_y = cprev.register_y
        /\ bus.cpu_wram = prev.cpu_wram
        /\ bus.prg_rom = prev.prg_rom

\* A comparison of equal bytes that are not zero, from a state with carry
\* and zero clear; one of a register below its operand; one above it.
C28_Witness ==
    /\ LastCompare
    /\ Compared = OperandByte
    /\ Compared # 0
    /\ ~Contains(cprev.status, CpuFlag.CARRY)
    /\ ~Contains(cprev.status, CpuFlag.ZERO)
    /\ Contains(cpu.status, CpuFlag.CARRY)
    /\ Contains(cpu.status, CpuFlag.ZERO)

C28_WitnessBelow ==
    /\ LastCompare
    /\ last.value \in CpyOpcodes
    /\ Compared < OperandByte
    /\ Contains(cprev.status, CpuFlag.CARRY)
    /\ ~Contains(cpu.status, CpuFlag.CARRY)
    /\ Contains(cpu.status, CpuFlag.NEGATIVE)

(***************************************************************************)
(* C29.  Subtract with carry: for every accumulator a, operand m and       *)
(* incoming carry c, SBC leaves the accumulator equal to                   *)
(* (a - m - (1 - c)) mod 256 and the carry set exactly when no borrow      *)
(* occurred (a >= m + (1 - c)); it is the same as add-with-carry applied   *)
(* to the one's complement of m, with overflow set exactly when a and m    *)
(* have different sign bits and the result's sign differs from a's.        *)
(***************************************************************************)
SbcOpcodes == { \hE9, \hE5, \hF5, \hED, \hFD, \hF9, \hE1, \hF1 }

LastSbc == LastStep /\ fault = "none" /\ last.value \in SbcOpcodes

OnesComplement(byte) == 255 - byte

\* The interpreter once the operand of the instruction last executed is read.
OperandRead ==
    ReadAt(GetOperandAddress(Fetched, OPCODES_MAP[last.value].addressing_mode)).cpu

C29_SubtractWithCarry ==
    LastSbc =>
        LET a      == cprev.register_a
            m      == OperandByte
            c      == cprev.status % 2
            result == (a - m - (1 - c) + 512) % 256
            added  == AddToRegisterA(OperandRead, OnesComplement(m))
        IN  /\ cpu.register_a = result
            /\ Contains(cpu.status, CpuFlag.CARRY) <=> a >= m + (1 - c)
            /\ Contains(cpu.status, CpuFlag.OVERFLOW) <=>
                  /\ SignBit(a) # SignBit(m)
                  /\ SignBit(result) # SignBit(a)
            /\ Contains(cpu.status, CpuFlag.ZERO) <=> result = 0
            /\ Contains(cpu.status, CpuFlag.NEGATIVE) <=> SignBit(result)
            /\ cpu.register_a = added.register_a
            /\ cpu.status = added.status

\* 0x80 - 0x01 with the carry set (no borrow): 0x7F, carry set, overflow set;
\* and 0x00 - 0x01 with the carry clear: 0xFE with a borrow.
C29_Witness ==
    /\ LastSbc
    /\ cprev.register_a = \h80
    /\ OperandByte = \h01
    /\ Contains(cprev.status, CpuFlag.CARRY)
    /\ cpu.register_a = \h7F
    /\ Contains(cpu.status, CpuFlag.CARRY)
    /\ Contains(cpu.status, CpuFlag.OVERFLOW)

C29_WitnessBorrow ==
    /\ LastSbc
    /\ cprev.register_a = \h00
    /\ OperandByte = \h01
    /\ ~Contains(cprev.status, CpuFlag.CARRY)
    /\ cpu.register_a = \hFE
    /\ ~Contains(cpu.status, CpuFlag.CARRY)

(***************************************************************************)
(* C30.  Shifts and rotates, in accumulator mode and in memory mode alike: *)
(* ASL and ROL set the carry to the operand's old bit 7, LSR and ROR to    *)
(* its old bit 0; ASL and LSR shift in 0, ROL shifts the old carry into    *)
(* bit 0 and ROR shifts it into bit 7; the result is written back to the   *)
(* place the operand came from, and zero and negative are derived from     *)
(* that result.                                                            *)
(***************************************************************************)
AslOpcodes == { \h0A, \h06, \h16, \h0E, \h1E }
LsrOpcodes == { \h4A, \h46, \h56, \h4E, \h5E }
RolOpcodes == { \h2A, \h26, \h36, \h2E, \h3E }
RorOpcodes == { \h6A, \h66, \h76, \h6E, \h7E }

LastShift ==
    /\ HasResult
    /\ last.value \in AslOpcodes \cup LsrOpcodes \cup RolOpcodes \cup RorOpcodes

\* The operand of the shift last executed, and the carry before it.
ShiftOperand ==
    IF last.value \in AccumulatorShifts THEN cprev.register_a ELSE OperandByte

CarryBefore == cprev.status % 2

\* The result the claim gives.
Shifted ==
    CASE last.value \in AslOpcodes -> (ShiftOperand * 2) % 256
      [] last.value \in LsrOpcodes -> ShiftOperand \div 2
      [] last.value \in RolOpcodes -> ((ShiftOperand * 2) % 256) + CarryBefore
      [] last.value \in RorOpcodes -> (ShiftOperand \div 2) + 128 * CarryBefore

C30_ShiftsAndRotates ==
    LastShift =>
        /\ Contains(cpu.status, CpuFlag.CARRY) <=>
              IF last.value \in AslOpcodes \cup RolOpcodes
              THEN BitOf(ShiftOperand, 7) = 1
              ELSE BitOf(ShiftOperand, 0) = 1
        /\ ResultByte = Shifted
        /\ last.value \in MemoryShifts => cpu.register_a = cprev.register_a
        /\ Contains(cpu.status, CpuFlag.ZERO) <=> Shifted = 0
        /\ Contains(cpu.status, CpuFlag.NEGATIVE) <=> Shifted >= 128

(***************************************************************************)
(* C31.  Indirect addressing keeps the pointer fetch inside the zero page: *)
(* for (Indirect,X) the pointer is p = (b + X) mod 256 and the effective   *)
(* address is read(p) + 256 * read((p + 1) mod 256); for (Indirect),Y the  *)
(* pointer is b (X plays no part), the base is                             *)
(* read(b) + 256 * read((b + 1) mod 256) and the effective address is      *)
(* (base + Y) mod 65536.  The address is seen through the byte that LDA    *)
(* loads from it.                                                          *)
(***************************************************************************)
LdaIndirectX == \hA1
LdaIndirectY == \hB1

\* The operand byte b of the instruction last executed by the CPU with the
\* flat memory, and the 16-bit value its zero page holds at a pointer.
FlatOperand == ArrayGet(prev.memory, (cprev.pc + 1) % 65536)

FlatPointee(p) ==
    ArrayGet(prev.memory, p) + 256 * ArrayGet(prev.memory, (p + 1) % 256)

\* The effective address of the claim.
IndirectAddress ==
    IF last.value = LdaIndirectX
    THEN FlatPointee((FlatOperand + cprev.register_x) % 256)
    ELSE (FlatPointee(FlatOperand) + cprev.register_y) % 65536

C31_IndirectAddressing ==
    (LastStep /\ fault = "none" /\ last.value \in { LdaIndirectX, LdaIndirectY }) =>
        cpu.register_a = ArrayGet(prev.memory, IndirectAddress)

(***************************************************************************)
(* C32.  Call/return round trip: a call (JSR) at address j pushes the      *)
(* 16-bit value j + 2 (high byte first, so the low byte is at the lower    *)
(* stack address) and jumps to its operand; a later return (RTS) with the  *)
(* stack undisturbed sets the program counter to j + 3 and restores the    *)
(* stack offset to its value before the call; pushing a 16-bit value and   *)
(* popping a 16-bit value returns the same value.                          *)
(***************************************************************************)
\* The 16-bit value on top of the stack after the instruction last executed:
\* its low byte is the last one pushed.
StackTop ==
    ArrayGet(bus.cpu_wram, StackPtrAddr(StackPtrDec(cpu.stackptr)))
    + 256 * ArrayGet(bus.cpu_wram, StackPtrAddr(StackPtrDec(StackPtrDec(cpu.stackptr))))

\* The call: the return address is stacked, its high byte at the offset the
\* stack had, and the program counter is the operand.
CallStacksAndJumps ==
    /\ cpu.stackptr = StackPtrInc(StackPtrInc(cprev.stackptr))
    /\ StackTop = (cprev.pc + 2) % 65536
    /\ ArrayGet(bus.cpu_wram, StackPtrAddr(cprev.stackptr)) = StackTop \div 256
    /\ cpu.pc = PointerAddress

\* The return: the 16-bit value popped is the one on top of the stack (the
\* one a call has pushed, when the stack is undisturbed), the program counter
\* is one more, and the stack offset is the one before the push.
ReturnUnstacks ==
    /\ cpu.stackptr = StackPtrDec(StackPtrDec(cprev.stackptr))
    /\ cpu.pc = (StackedAddress + 1) % 65536

C32_CallReturnRoundTrip ==
    LastCompleted =>
        /\ last.value = JsrOpcode => CallStacksAndJumps
        /\ last.value = RtsOpcode => ReturnUnstacks

(***************************************************************************)
(* C33.  Delayed data read: when the internal address a is below the       *)
(* palette range, a read of the data register returns the byte left in the *)
(* read-ahead buffer by the previous data read (not the byte at a) and     *)
(* replaces the buffer with the byte stored at a; hence of two consecutive *)
(* data reads the second returns the byte that was at the first read's     *)
(* address.                                                                *)
(***************************************************************************)
PaletteStart == \h3F00

\* The last access was a read of the data register, or of a mirror of it.
DataRead == LastRead /\ MirrorPpuAddr(last.addr) = \h2007

\* The internal address the last access has found.
AddressBefore == prev.ppu.reg_address

\* The byte the peripheral's memory holds at an address below the palette:
\* a byte of the pattern tables, or a byte of the name tables.
StoredAt(ppu, a) ==
    IF a < \h2000 THEN VecAt(ppu.chr_rom, a)
    ELSE ArrayGet(ppu.vram, MirrorVramAddr(ppu, IF a >= \h3000 THEN a - \h1000 ELSE a))

C33_DelayedDataRead ==
    (DataRead /\ AddressBefore < PaletteStart) =>
        /\ fault = "none"
        /\ ret = prev.ppu.data_buffer
        /\ bus.ppu.data_buffer = StoredAt(prev.ppu, AddressBefore)

(***************************************************************************)
(* C34.  When the internal address is in the final (palette) range         *)
(* 0x3F00-0x3FFF, a read or write of the data register completes without a *)
(* fault; the read returns immediately the byte stored for that palette    *)
(* address (mirrored every 32 bytes), i.e. the byte most recently written  *)
(* there through the data register, with no one-access delay.              *)
(***************************************************************************)
DataWrite == LastWrite /\ MirrorPpuAddr(last.addr) = \h2007

InPalette(a) == a \in PaletteStart..\h3FFF

\* The cell that holds the byte of a palette address: the palette is
\* mirrored every 32 bytes.
PaletteCell(a) == PaletteStart + ((a - PaletteStart) % 32)

C34_PaletteAccess ==
    /\ (DataRead /\ InPalette(AddressBefore)) =>
          /\ fault = "none"
          /\ ret = ArrayGet(prev.ppu.vram, PaletteCell(AddressBefore))
    /\ (DataWrite /\ InPalette(AddressBefore)) =>
          /\ fault = "none"
          /\ ArrayGet(bus.ppu.vram, PaletteCell(AddressBefore)) = last.value

(***************************************************************************)
(* C35.  Every read and every write of the data register advances the      *)
(* internal address exactly once, by the step currently selected by the    *)
(* control register, and the access itself uses the address as it was      *)
(* before that advance; no other register access changes the internal      *)
(* address except writes to the address register.  An access is one that   *)
(* completes.                                                              *)
(***************************************************************************)
\* The step the control register selects: 32 with bit 2 set, 1 otherwise.
SelectedStep == IF BitAnd(prev.ppu.reg_control, \b00000100) # 0 THEN 32 ELSE 1

AddressWrite == LastWrite /\ MirrorPpuAddr(last.addr) = \h2006

Completed35 == (LastRead \/ LastWrite) /\ fault = "none"

AddressSpaceEnd == \h3FFF

C36_AddressInRange ==
    /\ bus.ppu.reg_address \in 0..AddressSpaceEnd
    /\ AddressWrite => fault # "overflow"
    /\ (DataRead \/ DataWrite) => fault # "ppu_addr"

(***************************************************************************)
(* C37.  Object-memory data port: a write of v to 0x2004 stores v at the   *)
(* current object-memory cursor c and moves the cursor to (c + 1) mod 256; *)
(* a read of 0x2004 (or any of its mirrors) completes without a fault and  *)
(* returns the object-memory byte at the current cursor without moving it. *)
(***************************************************************************)
OamDataPort == \h2004

OamRead  == LastRead /\ MirrorPpuAddr(last.addr) = OamDataPort
OamWrite == LastWrite /\ MirrorPpuAddr(last.addr) = OamDataPort

\* The cursor the last access has found.
CursorBefore == prev.ppu.oam_address

C37_OamDataPort ==
    /\ OamWrite =>
          /\ fault = "none"
          /\ ArrayGet(bus.ppu.oam_data, CursorBefore) = last.value
          /\ bus.ppu.oam_address = (CursorBefore + 1) % 256
    /\ OamRead =>
          /\ fault = "none"
          /\ ret = ArrayGet(prev.ppu.oam_data, CursorBefore)
          /\ bus.ppu.oam_address = CursorBefore

(***************************************************************************)
(* C38.  Bulk transfer: for every page number p, a write of p to the       *)
(* bulk-transfer port 0x4014 completes without a fault and copies exactly  *)
(* the 256 bytes that the bus maps at p*256 .. p*256 + 255 into object     *)
(* memory at cursor, cursor + 1, ... modulo 256, leaving the cursor at its *)
(* starting value and work RAM unchanged.                                  *)
(***************************************************************************)
DmaPort == \h4014

DmaWrite == LastWrite /\ last.addr = DmaPort

\* The byte the bus maps at an address of work RAM or of the cartridge.
MappedByte(a) ==
    IF a < \h2000 THEN ArrayGet(prev.cpu_wram, MirrorRamAddr(a))
    ELSE ReadPrgRom(prev, a).ret

\* The page lies in work RAM or in the cartridge.
PageOfMemory(p) == p < \h20 \/ p >= \h80

C38_BulkTransfer ==
    DmaWrite =>
        /\ fault = "none"
        /\ PageOfMemory(last.value) =>
              \A i \in 0..255 :
                  ArrayGet(bus.ppu.oam_data, (CursorBefore + i) % 256)
                      = MappedByte(last.value * 256 + i)
        /\ bus.ppu.oam_address = CursorBefore
        /\ bus.cpu_wram = prev.cpu_wram

(***************************************************************************)
(* C39.  A read of the status register returns the three status flags in   *)
(* bits 7-5 and the stale peripheral open-bus contents in bits 4-0 (the    *)
(* low five bits of the last byte written to or read from a peripheral     *)
(* register), and updates only bits 7-5 of that open-bus byte.             *)
(***************************************************************************)
StatusPort == \h2002

StatusRead == LastRead /\ MirrorPpuAddr(last.addr) = StatusPort

\* The three flags of the status register, and the low five bits of the
\* peripheral's open-bus byte, as the last access has found them.
StatusFlags == BitAnd(prev.ppu.status, \b11100000)
StaleBits == BitAnd(prev.ppu_open_bus, \b00011111)

C39_StatusRead ==
    StatusRead =>
        /\ fault = "none"
        /\ ret = StatusFlags + StaleBits
        /\ bus.ppu_open_bus = StatusFlags + StaleBits

(***************************************************************************)
(* C40.  In every state reachable from reset by executing instructions,    *)
(* the status register has break clear and break2 set: arithmetic,         *)
(* logical, load, compare, flag set/clear and push instructions never      *)
(* change those two bits, and the pulls that overwrite the whole register  *)
(* (PLP, RTI) force break = 0 and break2 = 1.  The invariant is stated by  *)
(* its base, the reset of any machine, and its step, over every            *)
(* instruction that completes.                                             *)
(***************************************************************************)
PlpOpcode == \h28

FlagPulls == { PlpOpcode, RtiOpcode }

\* Break clear and break2 set.
BreakBitsFixed(status) ==
    ~Contains(status, CpuFlag.BREAK) /\ Contains(status, CpuFlag.BREAK2)

\* The two bits of a status byte.
BreakBits(status) == BitAnd(status, CpuFlag.BREAK + CpuFlag.BREAK2)

C40_BreakBitsInvariant ==
    /\ BreakBitsFixed(Reset(Machine(cpu, bus)).status)
    /\ (LastStep /\ fault = "none") =>
          /\ last.value \in FlagPulls => BreakBitsFixed(cpu.status)
          /\ last.value \notin FlagPulls => BreakBits(cpu.status) = BreakBits(cprev.status)
          /\ BreakBitsFixed(cprev.status) => BreakBitsFixed(cpu.status)

\* PLP pulls a byte with break set and break2 clear, and the register is
\* left with break clear and break2 set.
C40_Witness ==
    /\ LastStep
    /\ fault = "none"
    /\ last.value = PlpOpcode
    /\ Contains(StackedByte, CpuFlag.BREAK)
    /\ ~Contains(StackedByte, CpuFlag.BREAK2)
    /\ BreakBitsFixed(cpu.status)
    /\ BreakBits(cprev.status) = CpuFlag.BREAK

=============================================================================
